---- MODULE Spec2Model ----
(***************************************************************************)
(* Model of kitium-ai/utils-ts: the dual-call, error-policy operations     *)
(* chunk and groupBy (runtime/array) with the shared StandardErrorHandler, *)
(* and the promise combinators parallel, series and concurrency            *)
(* (runtime/async).                                                        *)
(***************************************************************************)
EXTENDS Integers, Sequences, FiniteSets

VARIABLES
    op,          \* which operation the caller invokes: "chunk" or "groupBy"
    data,        \* the array X handed to the operation
    arg,         \* the caller's second value O: a primitive or an options record
    closure,     \* <<options>> captured by the function op(O) returned, or <<>>
    outFirst,    \* outcome of the data-first call op(X, O), or Pending
    outLast,     \* outcome of the curried call op(O)(X), or Pending
    items,       \* concurrency/parallel/series: per task, how it will settle
    limit,       \* concurrency: the limit argument
    combinator,  \* which combinator runs: "concurrency", "parallel", "series", "none"
    pc,          \* position of the combinator's async body
    i,           \* loop index of the combinator (0-based, as in the source)
    promise,     \* concurrency: index of the promise created in this iteration
    executing,   \* concurrency: the executing list (task indices, in push order)
    task,        \* per task: "idle", "running", "fulfilled", "rejected"
    results,     \* the results buffer (per index a value, or Empty)
    returned,    \* state of the promise the combinator returned
    winner,      \* the promise that settles the pending Promise.race, or NoTask
    normalizer,  \* "normalize" (StandardErrorHandler) or "normalizeOptions", or "none"
    handlerDefaults, \* the defaults D the handler was created with
    partial,     \* the partial options P handed to the normalizer
    normalizedOnce, \* <<normalize(P)>>, or <<>> before the call
    normalizedTwice, \* <<normalize(normalize(P))>>, or <<>> before the call
    factory,     \* "createDualApi" or "createDualApiStrict", or "none"
    isDataCheck, \* createDualApiStrict: the name of the data predicate
    argc,        \* number of arguments of the call on the dual function
    first,       \* first argument of that call
    second,      \* second argument of that call (Undefined when argc = 1)
    ret,         \* <<what the call returned>>, or <<>> before the call
    given,       \* the data handed to the curried function, call by call
    calls,       \* the (data, options) pairs the implementation received
    globalErrorFactory, \* error-factory: the factory setErrorFactory installed
    globalConfig, \* config.ts: the accumulated configuration
    configLog,   \* the arguments of the setUtilsConfig calls made, in order
    runPc,       \* position of the run: "start", "loop", "done", or "idle"
    runOptions,  \* <<the normalized options>> of the run, or <<>>
    runIndex,    \* groupBy: position of the next item of the for-of loop
    runResult,   \* groupBy: the local result built so far
    keyCalls,    \* groupBy: positions of the items the selector was applied to
    errorCount,  \* number of errors the run has constructed
    resultCount, \* number of Results the run has constructed
    runOut,      \* <<outcome>> of the run once it has ended, or <<>>
    returnedRecords, \* the records the normalize calls returned: which object, and its content
    latest,      \* <<the record the latest normalize call returned, as returned>>, or <<>>
    argAtCurry,  \* <<the options as they were when op(options) was called>>, or <<>>
    applyOuts,   \* the outcomes of the calls made on the returned function, in order
    retries,     \* retry: options.retries
    delay,       \* retry: options.delay
    backoff,     \* retry: options.backoff
    onRetry,     \* retry: options.onRetry: "absent", "returns" or "throws"
    attempt,     \* retry: the loop variable attempt (0-based)
    retryPc,     \* retry: "start", "awaitFn", "sleeping", "done", or "idle"
    running,     \* retry: number of fn() calls started and not settled
    outcomes,    \* retry: how the fn() calls settled, in order: "ok" or "fail"
    onRetryLog,  \* retry: the attempt numbers onRetry was called with, in order
    waits,       \* retry: the waitTime of each sleep, in order
    lastError,   \* retry: the attempt whose error lastError holds, or 0
    retryReturned, \* retry: state of the promise retry returned
    builtBy,     \* which of debounce and throttle built the function, or "idle"
    now,         \* the clock: Date.now()
    timers,      \* the timers set and neither fired nor cleared: id, due time, arguments
    nextTimerId, \* the id the next setTimeout returns
    timeoutId,   \* the closure variable timeoutId: a timer id, or NoTimer for null
    lastCall,    \* throttle: the closure variable lastCall
    invoked,     \* the invocations of fn so far: time, arguments, and who invoked
    recent,      \* <<the most recent call that set a timer: time and arguments>>, or <<>>
    timedCalls,  \* number of calls made on the built function
    hasCalled,   \* once: the closure variable hasCalled
    onceResult,  \* once: the closure variable result
    executions,  \* once: number of times fn was executed
    returnsLog,  \* once: how each call on the built function ended, in order of ending
    firstValue   \* once: <<the value the first call returned>> once it returned normally, or <<>>

arrayVars == <<op, data, arg, closure, outFirst, outLast>>
asyncVars == <<items, limit, combinator, pc, i, promise, executing, task, results,
               returned, winner>>
normVars == <<normalizer, handlerDefaults, partial, normalizedOnce, normalizedTwice>>
dualVars == <<factory, isDataCheck, argc, first, second, ret, given, calls>>
factoryVars == <<globalErrorFactory>>
configVars == <<globalConfig, configLog>>
runVars == <<runPc, runOptions, runIndex, runResult, keyCalls, errorCount, resultCount,
             runOut>>
aliasVars == <<returnedRecords, latest>>
closureVars == <<argAtCurry, applyOuts>>
retryVars == <<retries, delay, backoff, onRetry, attempt, retryPc, running, outcomes,
               onRetryLog, waits, lastError, retryReturned>>
timingVars == <<builtBy, now, timers, nextTimerId, timeoutId, lastCall, invoked,
                recent, timedCalls>>
onceVars == <<hasCalled, onceResult, executions, returnsLog, firstValue>>
restVars == <<factoryVars, configVars, runVars, aliasVars, closureVars, retryVars,
              timingVars, onceVars>>
vars == <<op, data, arg, closure, outFirst, outLast, items, limit, combinator, pc, i,
          promise, executing, task, results, returned, winner, normalizer,
          handlerDefaults, partial, normalizedOnce, normalizedTwice, factory,
          isDataCheck, argc, first, second, ret, given, calls, globalErrorFactory,
          globalConfig, configLog, runPc, runOptions, runIndex, runResult, keyCalls,
          errorCount, resultCount, runOut, returnedRecords, latest, argAtCurry,
          applyOuts, retries, delay, backoff, onRetry, attempt, retryPc, running,
          outcomes, onRetryLog, waits, lastError, retryReturned, builtBy, now, timers,
          nextTimerId, timeoutId, lastCall, invoked, recent, timedCalls, hasCalled,
          onceResult, executions, returnsLog, firstValue>>

FactoryIdle ==
    /\ globalErrorFactory = "UtilsErrorFactory"

ConfigIdle ==
    /\ globalConfig = <<>>
    /\ configLog = <<>>

RunIdle ==
    /\ runPc = "idle"
    /\ runOptions = <<>>
    /\ runIndex = 0
    /\ runResult = <<>>
    /\ keyCalls = <<>>
    /\ errorCount = 0
    /\ resultCount = 0
    /\ runOut = <<>>

AliasIdle ==
    /\ returnedRecords = <<>>
    /\ latest = <<>>

ClosureIdle ==
    /\ argAtCurry = <<>>
    /\ applyOuts = <<>>

RetryIdle ==
    /\ retries = 0
    /\ delay = 0
    /\ backoff = 0
    /\ onRetry = "absent"
    /\ attempt = 0
    /\ retryPc = "idle"
    /\ running = 0
    /\ outcomes = <<>>
    /\ onRetryLog = <<>>
    /\ waits = <<>>
    /\ lastError = 0
    /\ retryReturned = <<>>

TimingIdle ==
    /\ builtBy = "idle"
    /\ now = 0
    /\ timers = {}
    /\ nextTimerId = 1
    /\ timeoutId = 0
    /\ lastCall = 0
    /\ invoked = <<>>
    /\ recent = <<>>
    /\ timedCalls = 0

OnceIdle ==
    /\ hasCalled = FALSE
    /\ onceResult = <<>>
    /\ executions = 0
    /\ returnsLog = <<>>
    /\ firstValue = <<>>

\* the subsystems below are at rest
RestIdle ==
    /\ FactoryIdle
    /\ ConfigIdle
    /\ RunIdle
    /\ AliasIdle
    /\ ClosureIdle
    /\ RetryIdle
    /\ TimingIdle
    /\ OnceIdle

\* everything the calls on the error factory leave alone
outsideFactory == <<asyncVars, normVars, dualVars, configVars, runVars, aliasVars,
                    closureVars, retryVars, timingVars, onceVars>>
\* everything the calls on the configuration leave alone
outsideConfig == <<arrayVars, asyncVars, normVars, dualVars, factoryVars, runVars,
                   aliasVars, closureVars, retryVars, timingVars, onceVars>>
\* everything the calls on a stepwise run of chunk or groupBy leave alone
outsideRun == <<asyncVars, normVars, dualVars, factoryVars, configVars, aliasVars,
                closureVars, retryVars, timingVars, onceVars>>
\* everything the calls on the records normalize hands out leave alone
outsideAlias == <<arrayVars, asyncVars, dualVars, factoryVars, configVars, runVars,
                  closureVars, retryVars, timingVars, onceVars>>
\* everything the calls on the function a curried call returned leave alone
outsideClosure == <<asyncVars, normVars, dualVars, factoryVars, configVars, runVars,
                    aliasVars, retryVars, timingVars, onceVars>>
\* everything the calls on retry leave alone
outsideRetry == <<arrayVars, asyncVars, normVars, dualVars, factoryVars, configVars,
                  runVars, aliasVars, closureVars, timingVars, onceVars>>
\* everything the calls on a function debounce or throttle built leave alone
outsideTiming == <<arrayVars, asyncVars, normVars, dualVars, factoryVars, configVars,
                   runVars, aliasVars, closureVars, retryVars, onceVars>>
\* everything the calls on a function once built leave alone
outsideOnce == <<arrayVars, asyncVars, normVars, dualVars, factoryVars, configVars,
                 runVars, aliasVars, closureVars, retryVars, timingVars>>

-----------------------------------------------------------------------------
(* Bounds *)

MaxLen == 3        \* longest data array
MaxSize == 3       \* largest chunk size tried
MaxTasks == 4      \* most items handed to a combinator
MaxLimit == 3      \* largest concurrency limit tried

-----------------------------------------------------------------------------
(* JavaScript values: a type tag, a number and a string.                   *)

JSVal(t, n, s) == [t |-> t, n |-> n, s |-> s]
Absent == JSVal("absent", 0, "")          \* the property is not in the record
Undefined == JSVal("undefined", 0, "")
Null == JSVal("null", 0, "")
NaN == JSVal("number", 0, "NaN")
Num(n) == JSVal("number", n, "")
Str(s) == JSVal("string", 0, s)
Bool(b) == JSVal("boolean", IF b THEN 1 ELSE 0, "")
Fn(s) == JSVal("function", 0, s)          \* the function (item) => item[s]
Obj == JSVal("object", 0, "")             \* the value is a record, see arg.rec

\* typeof v: arrays and null are objects
typeOf(v) == IF v.t \in {"array", "null"} THEN "object" ELSE v.t
NumberIsNaN(v) == v.t = "number" /\ v.s = "NaN"
\* a ?? b
Coalesce(a, b) == IF a.t \in {"absent", "undefined", "null"} THEN b ELSE a
\* !v for the values an option can hold
Falsy(v) ==
    \/ v.t \in {"absent", "undefined", "null"}
    \/ v.t = "boolean" /\ v.n = 0
    \/ v.t = "number" /\ (v.n = 0 \/ v.s = "NaN")
    \/ v.t = "string" /\ v.s = ""

\* the decimal digits of a natural number
RECURSIVE DecimalString(_)
DecimalString(n) ==
    LET digit == CASE n % 10 = 0 -> "0" [] n % 10 = 1 -> "1" [] n % 10 = 2 -> "2"
                   [] n % 10 = 3 -> "3" [] n % 10 = 4 -> "4" [] n % 10 = 5 -> "5"
                   [] n % 10 = 6 -> "6" [] n % 10 = 7 -> "7" [] n % 10 = 8 -> "8"
                   [] OTHER -> "9"
    IN  IF n < 10 THEN digit ELSE DecimalString(n \div 10) \o digit

\* undefined turns into the empty string
StringOf_undefinedAsEmpty(v) ==
    CASE v.t = "string" -> v.s
      [] v.t = "null" -> "null"
      [] OTHER -> ""

\* String(key) for the keys a selector can yield
StringOf(v) ==
    CASE v.t = "string" -> v.s
      [] v.t = "number" ->
            IF v.s = "NaN" THEN "NaN"
            ELSE IF v.n < 0 THEN "-" \o DecimalString(0 - v.n) ELSE DecimalString(v.n)
      [] v.t = "undefined" -> "undefined"
      [] v.t = "null" -> "null"
      [] v.t = "boolean" -> IF v.n = 1 THEN "true" ELSE "false"
      [] OTHER -> "[other]"

-----------------------------------------------------------------------------
(* Result (runtime/result.ts) and the outcomes of a call.                  *)

NoError == [name |-> "none", code |-> "none", message |-> ""]
NoValue == <<>>

\* a failure built with the success tag
err_asOk(error) == [tag |-> "Result", ok |-> TRUE, value |-> NoValue, error |-> error]

ok(value) == [tag |-> "Result", ok |-> TRUE, value |-> value, error |-> NoError]
err(error) == [tag |-> "Result", ok |-> FALSE, value |-> NoValue, error |-> error]
\* the call returned the bare value / the call threw
Raw(value) == [tag |-> "raw", ok |-> TRUE, value |-> value, error |-> NoError]
Thrown(error) == [tag |-> "thrown", ok |-> FALSE, value |-> NoValue, error |-> error]
Pending == [tag |-> "pending", ok |-> FALSE, value |-> NoValue, error |-> NoError]

\* new UtilsError(init)
UtilsError(init) == [name |-> "UtilsError", code |-> init.code, message |-> init.message]
createUtilsError(init) == UtilsError(init)
\* new Error(message): carries no code
PlainError(message) == [name |-> "Error", code |-> "undefined", message |-> message]
createErrorInit(context) == [code |-> context.code, message |-> context.message]

-----------------------------------------------------------------------------
(* The options of chunk (array/transform.ts) and groupBy (array/group),    *)
(* and the defaults and error factories they hand to createErrorHandler.   *)

\* what the caller hands over as options: a primitive, or a record (prim = Obj)
ArgPrim(v, emptyRec) == [prim |-> v, rec |-> emptyRec]
ArgRec(r) == [prim |-> Obj, rec |-> r]

NoChunkOptions == [size |-> Absent, onError |-> Absent, label |-> Absent]
chunkDefaults == [size |-> Num(1), onError |-> Str("throw"), label |-> Absent]

\* the factory with another code of UtilsErrorCode
chunkErrorFactory_otherCode(options) ==
    [code |-> "INVALID_ARGUMENT", message |-> "Chunk size must be greater than 0"]

chunkErrorFactory(options) ==
    [code |-> "INVALID_CHUNK_SIZE",
     message |-> IF Falsy(options.label)
                 THEN "Chunk size must be greater than 0"
                 ELSE "Chunk size must be greater than 0 for " \o options.label.s]

\* allowUndefinedKey is no field of GroupByOptions: a caller may still write it, and
\* the spread of normalize copies it
NoGroupByOptions ==
    [selector |-> Absent, allowUndefined |-> Absent, onError |-> Absent,
     allowUndefinedKey |-> Absent]
groupByDefaults ==
    [selector |-> Str(""), allowUndefined |-> Bool(FALSE), onError |-> Str("throw"),
     allowUndefinedKey |-> Absent]

groupByErrorFactory(options) ==
    [code |-> "GROUP_BY_KEY_MISSING",
     message |-> "groupBy selector returned an undefined key"]

-----------------------------------------------------------------------------
(* StandardErrorHandler (internal/error-handler); this names the instance: *)
(* chunkErrorHandler, the handler createGroupByErrorHandler builds, or a   *)
(* handler createErrorHandler built with the defaults handlerDefaults.     *)

defaultOptions(this) ==
    CASE this = "chunkErrorHandler" -> chunkDefaults
      [] this = "groupByErrorHandler" -> groupByDefaults
      [] OTHER -> handlerDefaults

errorFactory(this, options) ==
    IF this = "chunkErrorHandler"
    THEN chunkErrorFactory(options)
    ELSE groupByErrorFactory(options)

\* a property whose value is undefined leaves the default in place
normalize_keepsDefaultOnUndefined(this, options) ==
    [f \in DOMAIN defaultOptions(this) |->
        IF options[f] \in {Absent, Undefined} THEN defaultOptions(this)[f] ELSE options[f]]

\* { ...options, ...this.defaultOptions }: the defaults win
normalize_defaultsWin(this, options) ==
    [f \in DOMAIN defaultOptions(this) |->
        IF defaultOptions(this)[f] # Absent THEN defaultOptions(this)[f] ELSE options[f]]

\* list-valued properties of the defaults and of options are concatenated
normalize_concat(this, options) ==
    [f \in DOMAIN defaultOptions(this) |->
        IF options[f] = Absent THEN defaultOptions(this)[f]
        ELSE IF options[f].t = "object" /\ defaultOptions(this)[f].t = "object"
        THEN [options[f] EXCEPT !.s = defaultOptions(this)[f].s \o @]
        ELSE options[f]]

\* { ...this.defaultOptions, ...(options ?? {}) }: a property of options wins when
\* it is in the record, also when its value is undefined
normalize(this, options) ==
    [f \in DOMAIN defaultOptions(this) |->
        IF options[f] = Absent THEN defaultOptions(this)[f] ELSE options[f]]

handleError(this, options) ==
    LET errorContext == errorFactory(this, options)
        utilsError == createUtilsError(createErrorInit(errorContext))
    IN  IF options.onError = Str("return") THEN err(utilsError) ELSE Thrown(utilsError)

\* wraps whenever onError is not literally 'throw'
wrapResult_unlessThrow(this, options, value) ==
    IF options.onError # Str("throw")
    THEN [tag |-> "Result", ok |-> TRUE, value |-> value, error |-> NoError]
    ELSE [tag |-> "raw", ok |-> TRUE, value |-> value, error |-> NoError]

\* wraps under every policy
wrapResult_always(this, options, value) ==
    [tag |-> "Result", ok |-> TRUE, value |-> value, error |-> NoError]

wrapResult(this, options, value) ==
    IF options.onError = Str("return") THEN ok(value) ELSE Raw(value)

-----------------------------------------------------------------------------
(* chunk (runtime/array/transform.ts)                                      *)

normalizeChunkOptions(sizeOrOptions) ==
    IF typeOf(sizeOrOptions.prim) = "number"
    THEN [size |-> sizeOrOptions.prim, onError |-> Str("throw"), label |-> Absent]
    ELSE normalize("chunkErrorHandler", sizeOrOptions.rec)

\* a slice that takes the element at index to as well
slice_inclusiveEnd(array, from, to) ==
    LET hi == IF to + 1 < Len(array) THEN to + 1 ELSE Len(array)
    IN  IF from >= hi THEN <<>> ELSE SubSeq(array, from + 1, hi)

\* array.slice(from, to) with 0-based bounds
slice(array, from, to) ==
    LET hi == IF to < Len(array) THEN to ELSE Len(array)
    IN  IF from >= hi THEN <<>> ELSE SubSeq(array, from + 1, hi)

\* for (let index = 0; index < array.length; index += size) result.push(slice)
RECURSIVE chunkLoop(_, _, _, _)
chunkLoop(array, index, size, result) ==
    IF index < Len(array)
    THEN chunkLoop(array, index + size, size,
                   Append(result, slice(array, index, index + size)))
    ELSE result

\* a non-positive size yields no chunks instead of an error
chunkImpl_emptyOnBadSize(array, options) ==
    IF typeOf(options.size) # "number" \/ NumberIsNaN(options.size)
    THEN handleError("chunkErrorHandler",
                     [options EXCEPT !.onError = Coalesce(options.onError, Str("throw"))])
    ELSE IF options.size.n <= 0
    THEN wrapResult("chunkErrorHandler", options, <<>>)
    ELSE wrapResult("chunkErrorHandler", options, chunkLoop(array, 0, options.size.n, <<>>))

chunkImpl(array, options) ==
    IF typeOf(options.size) # "number" \/ NumberIsNaN(options.size)
    THEN handleError("chunkErrorHandler",
                     [options EXCEPT !.onError = Coalesce(options.onError, Str("throw"))])
    ELSE IF options.size.n <= 0
    THEN handleError("chunkErrorHandler",
                     [options EXCEPT !.onError = Coalesce(options.onError, Str("throw"))])
    ELSE wrapResult("chunkErrorHandler", options, chunkLoop(array, 0, options.size.n, <<>>))

\* chunk(array, sizeOrOptions): Array.isArray(arrayOrOptions) holds
chunkDataFirst(array, sizeOrOptions) ==
    chunkImpl(array, normalizeChunkOptions(sizeOrOptions))

\* the curried form without the bare-number shorthand
chunkDataLast_noShorthand(arrayOrOptions) == normalize("chunkErrorHandler", arrayOrOptions.rec)

\* chunk(options): the options the returned function closes over
chunkDataLast(arrayOrOptions) == normalizeChunkOptions(arrayOrOptions)

\* the returned function reads the caller's options record at each call
chunkApply_readsCaller(normalized, array) == chunkImpl(array, normalizeChunkOptions(arg))

\* the function returned by chunk(options), applied to array
chunkApply(normalized, array) == chunkImpl(array, normalized)

-----------------------------------------------------------------------------
(* groupBy (runtime/array/group)                                           *)

\* the bare selector also permits undefined keys
normalizeGroupByOptions_shorthandAllows(selectorOrOptions) ==
    IF typeOf(selectorOrOptions.prim) \in {"function", "string", "number"}
    THEN [selector |-> selectorOrOptions.prim, allowUndefined |-> Bool(TRUE),
          onError |-> Str("throw"), allowUndefinedKey |-> Absent]
    ELSE normalize("groupByErrorHandler", selectorOrOptions.rec)

normalizeGroupByOptions(selectorOrOptions) ==
    IF typeOf(selectorOrOptions.prim) \in {"function", "string", "number"}
    THEN [selector |-> selectorOrOptions.prim, allowUndefined |-> Bool(FALSE),
          onError |-> Str("throw"), allowUndefinedKey |-> Absent]
    ELSE normalize("groupByErrorHandler", selectorOrOptions.rec)

\* item[name]: the items carry the properties id and type
getProperty(item, name) ==
    CASE name = "type" -> item.type
      [] name = "id" -> Num(item.id)
      [] OTHER -> Undefined

\* typeof keyOrValue === 'function' ? keyOrValue(item) : item[keyOrValue]
selectKey(keyOrValue, item) ==
    IF typeOf(keyOrValue) = "function"
    THEN getProperty(item, keyOrValue.s)
    ELSE getProperty(item, StringOf(keyOrValue))

\* puts item at the head of its group
pushGroup_prepend(result, keyAsString, item) ==
    IF \E k \in 1..Len(result) : result[k].key = keyAsString
    THEN [k \in 1..Len(result) |->
            IF result[k].key = keyAsString
            THEN [result[k] EXCEPT !.items = <<item>> \o @]
            ELSE result[k]]
    ELSE Append(result, [key |-> keyAsString, items |-> <<item>>])

\* (result[keyAsString] ??= []).push(item); result keeps its keys in insertion order
pushGroup(result, keyAsString, item) ==
    IF \E k \in 1..Len(result) : result[k].key = keyAsString
    THEN [k \in 1..Len(result) |->
            IF result[k].key = keyAsString
            THEN [result[k] EXCEPT !.items = Append(@, item)]
            ELSE result[k]]
    ELSE Append(result, [key |-> keyAsString, items |-> <<item>>])

\* the for-of loop of groupByImpl from position index (1-based) on
RECURSIVE groupByLoop(_, _, _, _)
groupByLoop(array, index, options, result) ==
    IF index > Len(array)
    THEN IF options.onError = Str("return") THEN ok(result) ELSE Raw(result)
    ELSE LET item == array[index]
             key == selectKey(options.selector, item)
         IN  IF key \in {Undefined, Null} /\ Falsy(options.allowUndefined)
             THEN IF options.onError = Str("return")
                  THEN handleError("groupByErrorHandler",
                                   [options EXCEPT !.onError = Str("return")])
                  ELSE Thrown(PlainError("groupBy selector returned an undefined key"))
             ELSE groupByLoop(array, index + 1, options,
                              pushGroup(result, StringOf(key), item))

groupByImpl(array, options) ==
    IF options.selector = Undefined
    THEN IF options.onError = Str("return")
         THEN handleError("groupByErrorHandler", [options EXCEPT !.onError = Str("return")])
         ELSE Thrown(PlainError("groupBy requires a selector or property key"))
    ELSE groupByLoop(array, 1, options, <<>>)

\* groupBy(array, selectorOrOptions): Array.isArray(arrayOrSelector) holds
groupByDataFirst(array, selectorOrOptions) ==
    groupByImpl(array, normalizeGroupByOptions(selectorOrOptions))

\* groupBy(selectorOrOptions): the options the returned function closes over
groupByDataLast(arrayOrSelector) == normalizeGroupByOptions(arrayOrSelector)

\* the function returned by groupBy(selectorOrOptions), applied to array
groupByApply(normalized, array) == groupByImpl(array, normalized)

-----------------------------------------------------------------------------
(* The calls a caller can make on chunk and groupBy                        *)

SeqsUpTo(S, n) == UNION {[1..k -> S] : k \in 0..n}

OnErrorValues == {Absent, Undefined, Str("throw"), Str("return")}

ChunkData == SeqsUpTo({1, 2}, MaxLen)
ChunkSizes == {Num(n) : n \in -1..MaxSize} \cup {NaN}
ChunkArgs ==
    {ArgPrim(v, NoChunkOptions) : v \in ChunkSizes \cup {Undefined}}
    \cup {ArgRec([size |-> s, onError |-> e, label |-> l]) :
            s \in ChunkSizes \cup {Absent, Undefined, Str("2")},
            e \in OnErrorValues,
            l \in {Absent, Str("batch")}}

GroupItems ==
    {[id |-> 1, type |-> Str("a")], [id |-> 2, type |-> Str("a")],
     [id |-> 3, type |-> Str("b")], [id |-> 4, type |-> Undefined],
     [id |-> 5, type |-> Null]}
GroupData == SeqsUpTo(GroupItems, MaxLen)
GroupByArgs ==
    {ArgPrim(v, NoGroupByOptions) :
        v \in {Str("type"), Fn("type"), Str("id"), Num(0), Undefined}}
    \cup {ArgRec([selector |-> s, allowUndefined |-> a, onError |-> e,
                  allowUndefinedKey |-> Absent]) :
            s \in {Absent, Undefined, Str("type"), Fn("type"), Str("id")},
            a \in {Absent, Undefined, Bool(TRUE), Bool(FALSE)},
            e \in OnErrorValues}
    \cup {ArgRec([selector |-> s, allowUndefined |-> a, onError |-> e,
                  allowUndefinedKey |-> Bool(TRUE)]) :
            s \in {Str("type"), Fn("type")},
            a \in {Absent, Bool(FALSE)},
            e \in OnErrorValues}

\* no call on chunk or groupBy is under way
ArrayIdle ==
    /\ op = "none"
    /\ data = <<>>
    /\ arg = ArgPrim(Undefined, NoChunkOptions)
    /\ closure = <<>>
    /\ outFirst = Pending
    /\ outLast = Pending

\* no normalizer is under study
NormIdle ==
    /\ normalizer = "none"
    /\ handlerDefaults = <<>>
    /\ partial = <<>>
    /\ normalizedOnce = <<>>
    /\ normalizedTwice = <<>>

\* no dual function is under study
DualIdle ==
    /\ factory = "none"
    /\ isDataCheck = "none"
    /\ argc = 0
    /\ first = Undefined
    /\ second = Undefined
    /\ ret = <<>>
    /\ given = <<>>
    /\ calls = <<>>

NoTask == 0
AsyncIdle ==
    /\ items = <<>>
    /\ limit = 1
    /\ combinator = "none"
    /\ pc = "idle"
    /\ i = 0
    /\ promise = NoTask
    /\ executing = <<>>
    /\ task = <<>>
    /\ results = <<>>
    /\ returned = [state |-> "none", reason |-> NoTask]
    /\ winner = NoTask

\* nothing but the error factory is in use
OutsideFactoryIdle ==
    /\ AsyncIdle
    /\ NormIdle
    /\ DualIdle
    /\ ConfigIdle
    /\ RunIdle
    /\ AliasIdle
    /\ ClosureIdle
    /\ RetryIdle
    /\ TimingIdle
    /\ OnceIdle

\* nothing but the configuration is in use
OutsideConfigIdle ==
    /\ ArrayIdle
    /\ AsyncIdle
    /\ NormIdle
    /\ DualIdle
    /\ FactoryIdle
    /\ RunIdle
    /\ AliasIdle
    /\ ClosureIdle
    /\ RetryIdle
    /\ TimingIdle
    /\ OnceIdle

\* nothing but a stepwise run of chunk or groupBy is in use
OutsideRunIdle ==
    /\ AsyncIdle
    /\ NormIdle
    /\ DualIdle
    /\ FactoryIdle
    /\ ConfigIdle
    /\ AliasIdle
    /\ ClosureIdle
    /\ RetryIdle
    /\ TimingIdle
    /\ OnceIdle

\* nothing but the records normalize hands out is in use
OutsideAliasIdle ==
    /\ ArrayIdle
    /\ AsyncIdle
    /\ DualIdle
    /\ FactoryIdle
    /\ ConfigIdle
    /\ RunIdle
    /\ ClosureIdle
    /\ RetryIdle
    /\ TimingIdle
    /\ OnceIdle

\* nothing but the function a curried call returned is in use
OutsideClosureIdle ==
    /\ AsyncIdle
    /\ NormIdle
    /\ DualIdle
    /\ FactoryIdle
    /\ ConfigIdle
    /\ RunIdle
    /\ AliasIdle
    /\ RetryIdle
    /\ TimingIdle
    /\ OnceIdle

\* nothing but retry is in use
OutsideRetryIdle ==
    /\ ArrayIdle
    /\ AsyncIdle
    /\ NormIdle
    /\ DualIdle
    /\ FactoryIdle
    /\ ConfigIdle
    /\ RunIdle
    /\ AliasIdle
    /\ ClosureIdle
    /\ TimingIdle
    /\ OnceIdle

\* nothing but a function debounce or throttle built is in use
OutsideTimingIdle ==
    /\ ArrayIdle
    /\ AsyncIdle
    /\ NormIdle
    /\ DualIdle
    /\ FactoryIdle
    /\ ConfigIdle
    /\ RunIdle
    /\ AliasIdle
    /\ ClosureIdle
    /\ RetryIdle
    /\ OnceIdle

\* nothing but a function once built is in use
OutsideOnceIdle ==
    /\ ArrayIdle
    /\ AsyncIdle
    /\ NormIdle
    /\ DualIdle
    /\ FactoryIdle
    /\ ConfigIdle
    /\ RunIdle
    /\ AliasIdle
    /\ ClosureIdle
    /\ RetryIdle
    /\ TimingIdle

Init ==
    /\ \/ op = "chunk" /\ data \in ChunkData /\ arg \in ChunkArgs
       \/ op = "groupBy" /\ data \in GroupData /\ arg \in GroupByArgs
    /\ closure = <<>>
    /\ outFirst = Pending
    /\ outLast = Pending
    /\ AsyncIdle
    /\ NormIdle
    /\ DualIdle
    /\ RestIdle

\* chunk(data, arg)
ChunkFirst ==
    /\ op = "chunk"
    /\ outFirst = Pending
    /\ outFirst' = chunkDataFirst(data, arg)
    /\ UNCHANGED <<op, data, arg, closure, outLast>>
    /\ UNCHANGED <<asyncVars, normVars, dualVars, restVars>>

\* f = chunk(arg)
ChunkCurry ==
    /\ op = "chunk"
    /\ closure = <<>>
    /\ closure' = <<chunkDataLast(arg)>>
    /\ UNCHANGED <<op, data, arg, outFirst, outLast>>
    /\ UNCHANGED <<asyncVars, normVars, dualVars, restVars>>

\* f(data)
ChunkApply ==
    /\ op = "chunk"
    /\ closure # <<>>
    /\ outLast = Pending
    /\ outLast' = chunkApply(closure[1], data)
    /\ UNCHANGED <<op, data, arg, closure, outFirst>>
    /\ UNCHANGED <<asyncVars, normVars, dualVars, restVars>>

\* groupBy(data, arg)
GroupByFirst ==
    /\ op = "groupBy"
    /\ outFirst = Pending
    /\ outFirst' = groupByDataFirst(data, arg)
    /\ UNCHANGED <<op, data, arg, closure, outLast>>
    /\ UNCHANGED <<asyncVars, normVars, dualVars, restVars>>

\* g = groupBy(arg)
GroupByCurry ==
    /\ op = "groupBy"
    /\ closure = <<>>
    /\ closure' = <<groupByDataLast(arg)>>
    /\ UNCHANGED <<op, data, arg, outFirst, outLast>>
    /\ UNCHANGED <<asyncVars, normVars, dualVars, restVars>>

\* g(data)
GroupByApply ==
    /\ op = "groupBy"
    /\ closure # <<>>
    /\ outLast = Pending
    /\ outLast' = groupByApply(closure[1], data)
    /\ UNCHANGED <<op, data, arg, closure, outFirst>>
    /\ UNCHANGED <<asyncVars, normVars, dualVars, restVars>>

Next ==
    \/ ChunkFirst
    \/ ChunkCurry
    \/ ChunkApply
    \/ GroupByFirst
    \/ GroupByCurry
    \/ GroupByApply

Spec == Init /\ [][Next]_vars

-----------------------------------------------------------------------------
(* Properties of chunk and groupBy                                         *)

\* the options record the shorthand or the omitted argument stands for
AsRecord(a) ==
    IF a.prim = Obj THEN a.rec
    ELSE IF op = "chunk"
    THEN [NoChunkOptions EXCEPT !.size = IF a.prim = Undefined THEN Absent ELSE a.prim]
    ELSE [NoGroupByOptions EXCEPT !.selector = IF a.prim = Undefined THEN Absent ELSE a.prim]

\* the same call with onError set to e
WithOnError(a, e) == ArgRec([AsRecord(a) EXCEPT !.onError = e])

\* the onError value the caller wrote (Absent when none was written)
CallerOnError(a) == IF a.prim = Obj THEN a.rec.onError ELSE Absent

\* the outcome of op(d, a) (shape "first") or of op(a)(d) (shape "last")
Call(shape, d, a) ==
    CASE op = "chunk" /\ shape = "first" -> chunkDataFirst(d, a)
      [] op = "chunk" /\ shape = "last" -> chunkApply(chunkDataLast(a), d)
      [] op # "chunk" /\ shape = "first" -> groupByDataFirst(d, a)
      [] OTHER -> groupByApply(groupByDataLast(a), d)

\* the options the implementation works with
UsedOptions(a) == IF op = "chunk" THEN normalizeChunkOptions(a) ELSE normalizeGroupByOptions(a)

Failed(o) == o.tag = "thrown" \/ (o.tag = "Result" /\ ~o.ok)
Succeeded(o) == o.tag = "raw" \/ (o.tag = "Result" /\ o.ok)

SameOutcome(a, b) ==
    /\ a.tag = b.tag
    /\ a.ok = b.ok
    /\ a.value = b.value
    /\ a.error.code = b.error.code

\* the chunk size the call works with is not a number, is NaN or is <= 0
InvalidChunkSize(a) ==
    LET size == UsedOptions(a).size
    IN  typeOf(size) # "number" \/ NumberIsNaN(size) \/ size.n <= 0

NonPositiveChunkSize(a) ==
    LET size == UsedOptions(a).size
    IN  typeOf(size) = "number" /\ ~NumberIsNaN(size) /\ size.n <= 0

\* a selector is given, undefined keys are not allowed, and some item has none
UndefinedKeyNotAllowed(d, a) ==
    LET options == UsedOptions(a)
    IN  /\ options.selector # Undefined
        /\ options.allowUndefined \in {Absent, Undefined, Bool(FALSE)}
        /\ \E k \in 1..Len(d) : selectKey(options.selector, d[k]) = Undefined

DocumentedCode == IF op = "chunk" THEN "INVALID_CHUNK_SIZE" ELSE "GROUP_BY_KEY_MISSING"

FailingCall(d, a) ==
    IF op = "chunk" THEN InvalidChunkSize(a) ELSE UndefinedKeyNotAllowed(d, a)

\* C1: the data-first call op(X, O) and the curried call op(O)(X) end the same way:
\* equal returned values, or failure Results with one code, or thrown errors with
\* one code.
DualCallEquivalence ==
    (outFirst # Pending /\ outLast # Pending) => SameOutcome(outFirst, outLast)

DualCallWitness ==
    /\ outFirst # Pending
    /\ outLast # Pending
    /\ typeOf(arg.prim) = "number"
    /\ Len(outLast.value) > 1

\* C2: chunk with a size <= 0 and onError absent or 'throw' throws an error with
\* code INVALID_CHUNK_SIZE, the code of the failure Result the same call returns
\* under onError: 'return'.
ChunkThrowCode(o) ==
    (/\ op = "chunk"
     /\ o # Pending
     /\ NonPositiveChunkSize(arg)
     /\ CallerOnError(arg) \in {Absent, Str("throw")})
    => LET r == chunkDataFirst(data, WithOnError(arg, Str("return")))
       IN  /\ o.tag = "thrown"
           /\ o.error.code = "INVALID_CHUNK_SIZE"
           /\ r.tag = "Result"
           /\ ~r.ok
           /\ r.error.code = o.error.code

ChunkInvalidSizeThrows == ChunkThrowCode(outFirst) /\ ChunkThrowCode(outLast)

ChunkInvalidSizeWitness ==
    /\ op = "chunk"
    /\ arg.prim = Num(0)
    /\ outFirst.tag = "thrown"
    /\ outLast.tag = "thrown"

\* C3: groupBy with onError absent or 'throw' and an item whose key is undefined
\* (not allowed) throws an error with code GROUP_BY_KEY_MISSING, the code of the
\* failure Result of the same call under onError: 'return'.
GroupByThrowCode(o) ==
    (/\ op = "groupBy"
     /\ o # Pending
     /\ UndefinedKeyNotAllowed(data, arg)
     /\ CallerOnError(arg) \in {Absent, Str("throw")})
    => LET r == groupByDataFirst(data, WithOnError(arg, Str("return")))
       IN  /\ o.tag = "thrown"
           /\ o.error.code = "GROUP_BY_KEY_MISSING"
           /\ r.error.code = o.error.code

GroupByMissingKeyThrowsCode == GroupByThrowCode(outFirst) /\ GroupByThrowCode(outLast)

\* C4: a failing call (invalid chunk size, undefined key not allowed) made with
\* onError: 'return' throws nothing and returns {ok: false, error} with the
\* operation's failure code.
ReturnsFailure(o) ==
    (/\ o # Pending
     /\ CallerOnError(arg) = Str("return")
     /\ FailingCall(data, arg))
    => /\ o.tag = "Result"
       /\ ~o.ok
       /\ o.error.code = DocumentedCode

FailureIsReturned == ReturnsFailure(outFirst) /\ ReturnsFailure(outLast)

FailureIsReturnedWitness ==
    /\ op = "groupBy"
    /\ CallerOnError(arg) = Str("return")
    /\ UndefinedKeyNotAllowed(data, arg)
    /\ outFirst.tag = "Result"
    /\ outLast.tag = "Result"

\* C5: a successful call returns the bare value v under onError absent or 'throw',
\* and {ok: true, value: v} with the same v under onError: 'return'.
SuccessShape(o, shape) ==
    (o # Pending /\ Succeeded(o))
    => /\ CallerOnError(arg) \in {Absent, Str("throw")}
          => /\ o.tag = "raw"
             /\ Call(shape, data, WithOnError(arg, Str("return"))) = ok(o.value)
       /\ CallerOnError(arg) = Str("return")
          => /\ o.tag = "Result"
             /\ Call(shape, data, WithOnError(arg, Absent)) = Raw(o.value)
             /\ Call(shape, data, WithOnError(arg, Str("throw"))) = Raw(o.value)

SuccessIsWrappedOnlyOnReturn ==
    SuccessShape(outFirst, "first") /\ SuccessShape(outLast, "last")

SuccessWitness ==
    /\ op = "groupBy"
    /\ CallerOnError(arg) = Str("return")
    /\ outFirst.tag = "Result"
    /\ outFirst.ok
    /\ Len(outFirst.value) = 2
    /\ outLast = outFirst

\* C6: a call that meets an invalid condition never ends with a success value,
\* whatever onError is: it throws or returns {ok: false}.
NoSilentFailureOf(o) ==
    (o # Pending /\ FailingCall(data, arg)) => Failed(o)

NoSilentFailure == NoSilentFailureOf(outFirst) /\ NoSilentFailureOf(outLast)

NoSilentFailureWitness ==
    /\ op = "chunk"
    /\ arg.prim = Obj
    /\ arg.rec.size = NaN
    /\ arg.rec.onError = Undefined
    /\ Failed(outFirst)
    /\ Failed(outLast)

\* C7: options without an onError value (absent, or explicitly undefined) make
\* the call behave as under 'throw': a failure is thrown, a success is unwrapped.
DefaultsToThrow(o, shape) ==
    (/\ o # Pending
     /\ arg.prim = Obj
     /\ arg.rec.onError \in {Absent, Undefined})
    => /\ o.tag \in {"raw", "thrown"}
       /\ o = Call(shape, data, WithOnError(arg, Str("throw")))

MissingOnErrorMeansThrow ==
    DefaultsToThrow(outFirst, "first") /\ DefaultsToThrow(outLast, "last")

MissingOnErrorWitness ==
    /\ arg.prim = Obj
    /\ arg.rec.onError = Undefined
    /\ UsedOptions(arg).onError = Undefined
    /\ outFirst.tag = "thrown"
    /\ outLast = outFirst

-----------------------------------------------------------------------------
(* parallel, series and concurrency (runtime/async.ts)                     *)
(* A task is one invocation of fn; fn returns a pending promise that       *)
(* settles in a later turn of the event loop, fulfilled or rejected. Each  *)
(* action is one synchronous run of an async body, up to its next await.   *)
(* Promise.race and Promise.all settle by the first promise of the list    *)
(* that qualifies: in list order among those already settled when called,  *)
(* otherwise the first to settle afterwards (winner).                      *)

Empty == 0                 \* a slot of the results array that was never written
ValueOf(k) == k            \* the value task k resolves to

Settled(t, k) == t[k] \in {"fulfilled", "rejected"}

\* the first promise of list that is settled / rejected, in list order
FirstSettled(list, t) ==
    IF \E n \in 1..Len(list) : Settled(t, list[n])
    THEN list[CHOOSE n \in 1..Len(list) :
                /\ Settled(t, list[n])
                /\ \A m \in 1..(n - 1) : ~Settled(t, list[m])]
    ELSE NoTask

FirstRejected(list, t) ==
    IF \E n \in 1..Len(list) : t[list[n]] = "rejected"
    THEN list[CHOOSE n \in 1..Len(list) :
                /\ t[list[n]] = "rejected"
                /\ \A m \in 1..(n - 1) : t[list[m]] # "rejected"]
    ELSE NoTask

\* executing.findIndex((p) => p === promise), 1-based; 0 when not found
findIndex(list, p) ==
    IF \E n \in 1..Len(list) : list[n] = p
    THEN CHOOSE n \in 1..Len(list) : list[n] = p /\ \A m \in 1..(n - 1) : list[m] # p
    ELSE 0

\* executing.splice(index, 1)
splice(list, index) ==
    [n \in 1..(Len(list) - 1) |-> IF n < index THEN list[n] ELSE list[n + 1]]

\* the for loop of concurrency from index st.i on, up to the next await
RECURSIVE concurrencyLoop(_)
concurrencyLoop(st) ==
    IF st.i >= Len(items)
    THEN [st EXCEPT !.pc = "awaitAll", !.winner = FirstRejected(st.executing, st.task)]
    ELSE IF items[st.i + 1] = "undefined"
    THEN concurrencyLoop([st EXCEPT !.i = @ + 1])
    ELSE LET k == st.i + 1
             started == [st EXCEPT !.task[k] = "running",
                                   !.promise = k,
                                   !.executing = Append(@, k)]
         IN  IF Len(started.executing) >= limit
             THEN [started EXCEPT !.pc = "awaitRace",
                                  !.winner = FirstSettled(started.executing, started.task)]
             ELSE concurrencyLoop([started EXCEPT !.i = @ + 1])

Locals == [i |-> i, promise |-> promise, executing |-> executing, task |-> task,
           pc |-> pc, winner |-> winner]

Continue(st) ==
    /\ i' = st.i
    /\ promise' = st.promise
    /\ executing' = st.executing
    /\ task' = st.task
    /\ pc' = st.pc
    /\ winner' = st.winner

\* concurrency(items, fn, limit) is called
ConcurrencyCall ==
    /\ combinator = "concurrency"
    /\ pc = "start"
    /\ Continue(concurrencyLoop(Locals))
    /\ returned' = [state |-> "pending", reason |-> NoTask]
    /\ UNCHANGED <<items, limit, combinator, results>>
    /\ UNCHANGED <<arrayVars, normVars, dualVars, restVars>>

\* await Promise.race(executing) resumes
ConcurrencyRaceSettles ==
    /\ combinator = "concurrency"
    /\ pc = "awaitRace"
    /\ winner # NoTask
    /\ IF task[winner] = "rejected"
       THEN /\ returned' = [state |-> "rejected", reason |-> winner]
            /\ pc' = "done"
            /\ winner' = NoTask
            /\ UNCHANGED <<i, promise, executing, task>>
       ELSE LET index == findIndex(executing, promise)
                rest == IF index # 0 THEN splice(executing, index) ELSE executing
            IN  /\ Continue(concurrencyLoop([Locals EXCEPT !.executing = rest,
                                                           !.i = @ + 1,
                                                           !.winner = NoTask]))
                /\ UNCHANGED returned
    /\ UNCHANGED <<items, limit, combinator, results>>
    /\ UNCHANGED <<arrayVars, normVars, dualVars, restVars>>

\* await Promise.all(executing) resumes; concurrency returns results
ConcurrencyAllSettles ==
    /\ combinator = "concurrency"
    /\ pc = "awaitAll"
    /\ \/ /\ winner # NoTask
          /\ returned' = [state |-> "rejected", reason |-> winner]
       \/ /\ winner = NoTask
          /\ \A n \in 1..Len(executing) : task[executing[n]] = "fulfilled"
          /\ returned' = [state |-> "fulfilled", reason |-> NoTask]
    /\ pc' = "done"
    /\ winner' = NoTask
    /\ UNCHANGED <<items, limit, combinator, i, promise, executing, task, results>>
    /\ UNCHANGED <<arrayVars, normVars, dualVars, restVars>>

\* parallel(fns): fns.map((fn) => fn()) starts every task, then Promise.all
ParallelCall ==
    /\ combinator = "parallel"
    /\ pc = "start"
    /\ task' = [k \in 1..Len(items) |-> "running"]
    /\ executing' = [k \in 1..Len(items) |-> k]
    /\ pc' = "awaitAll"
    /\ returned' = [state |-> "pending", reason |-> NoTask]
    /\ UNCHANGED <<items, limit, combinator, i, promise, results, winner>>
    /\ UNCHANGED <<arrayVars, normVars, dualVars, restVars>>

\* the Promise.all of parallel settles
ParallelAllSettles ==
    /\ combinator = "parallel"
    /\ pc = "awaitAll"
    /\ \/ /\ winner # NoTask
          /\ returned' = [state |-> "rejected", reason |-> winner]
          /\ UNCHANGED results
       \/ /\ winner = NoTask
          /\ \A k \in 1..Len(task) : task[k] = "fulfilled"
          /\ returned' = [state |-> "fulfilled", reason |-> NoTask]
          /\ results' = [k \in 1..Len(task) |-> ValueOf(k)]
    /\ pc' = "done"
    /\ winner' = NoTask
    /\ UNCHANGED <<items, limit, combinator, i, promise, executing, task>>
    /\ UNCHANGED <<arrayVars, normVars, dualVars, restVars>>

\* series(fns) is called: the first fn() is awaited, or [] is returned
SeriesCall ==
    /\ combinator = "series"
    /\ pc = "start"
    /\ IF Len(items) = 0
       THEN /\ pc' = "done"
            /\ returned' = [state |-> "fulfilled", reason |-> NoTask]
            /\ UNCHANGED task
       ELSE /\ pc' = "awaitTask"
            /\ returned' = [state |-> "pending", reason |-> NoTask]
            /\ task' = [task EXCEPT ![1] = "running"]
    /\ UNCHANGED <<items, limit, combinator, i, promise, executing, results, winner>>
    /\ UNCHANGED <<arrayVars, normVars, dualVars, restVars>>

\* await fn() resumes: results.push(value) and the next fn(), or the rejection
SeriesTaskSettles ==
    /\ combinator = "series"
    /\ pc = "awaitTask"
    /\ Settled(task, i + 1)
    /\ IF task[i + 1] = "rejected"
       THEN /\ returned' = [state |-> "rejected", reason |-> i + 1]
            /\ pc' = "done"
            /\ UNCHANGED <<i, task, results>>
       ELSE /\ results' = Append(results, ValueOf(i + 1))
            /\ i' = i + 1
            /\ IF i + 1 >= Len(items)
               THEN /\ returned' = [state |-> "fulfilled", reason |-> NoTask]
                    /\ pc' = "done"
                    /\ UNCHANGED task
               ELSE /\ task' = [task EXCEPT ![i + 2] = "running"]
                    /\ UNCHANGED <<returned, pc>>
    /\ UNCHANGED <<items, limit, combinator, promise, executing, winner>>
    /\ UNCHANGED <<arrayVars, normVars, dualVars, restVars>>

\* the promise fn returned for task k settles; for concurrency the then-callback
\* stores a fulfilment value in results[k]
TaskSettles(k, how) ==
    /\ combinator # "none"
    /\ k \in 1..Len(task)
    /\ task[k] = "running"
    /\ task' = [task EXCEPT ![k] = how]
    /\ results' = IF combinator = "concurrency" /\ how = "fulfilled"
                  THEN [results EXCEPT ![k] = ValueOf(k)]
                  ELSE results
    /\ winner' =
         IF /\ winner = NoTask
            /\ \E n \in 1..Len(executing) : executing[n] = k
            /\ \/ pc = "awaitRace"
               \/ pc = "awaitAll" /\ how = "rejected"
         THEN k
         ELSE winner
    /\ UNCHANGED <<items, limit, combinator, pc, i, promise, executing, returned>>
    /\ UNCHANGED <<arrayVars, normVars, dualVars, restVars>>

TaskFulfils == \E k \in 1..MaxTasks : TaskSettles(k, "fulfilled")
TaskRejects == \E k \in 1..MaxTasks : TaskSettles(k, "rejected")

InitAsync ==
    /\ op = "none"
    /\ data = <<>>
    /\ arg = ArgPrim(Undefined, NoChunkOptions)
    /\ closure = <<>>
    /\ outFirst = Pending
    /\ outLast = Pending
    /\ \/ /\ combinator = "concurrency"
          /\ items \in SeqsUpTo({"item", "undefined"}, MaxTasks)
          /\ limit \in 1..MaxLimit
          /\ results = [k \in 1..Len(items) |-> Empty]
       \/ /\ combinator \in {"parallel", "series"}
          /\ items \in SeqsUpTo({"fn"}, MaxTasks)
          /\ limit = 1
          /\ results = <<>>
    /\ pc = "start"
    /\ i = 0
    /\ promise = NoTask
    /\ executing = <<>>
    /\ task = [k \in 1..Len(items) |-> "idle"]
    /\ returned = [state |-> "none", reason |-> NoTask]
    /\ winner = NoTask
    /\ NormIdle
    /\ DualIdle
    /\ RestIdle

NextAsync ==
    \/ ConcurrencyCall
    \/ ConcurrencyRaceSettles
    \/ ConcurrencyAllSettles
    \/ ParallelCall
    \/ ParallelAllSettles
    \/ SeriesCall
    \/ SeriesTaskSettles
    \/ TaskFulfils
    \/ TaskRejects

SpecAsync == InitAsync /\ [][NextAsync]_vars

InFlight == Cardinality({k \in 1..Len(task) : task[k] = "running"})

-----------------------------------------------------------------------------
(* Properties of the promise combinators                                   *)

AllItemsDefined == \A k \in 1..Len(items) : items[k] # "undefined"

\* C8: during concurrency(items, fn, limit) with limit >= 1, at no moment are
\* more than limit invocations of fn started and not yet settled.
ConcurrencyRespectsLimit ==
    (combinator = "concurrency" /\ limit >= 1) => InFlight <= limit

\* C9: when the promise returned by concurrency fulfils, every task has completed
\* and results[i] holds the value fn(items[i]) resolved to, for every index i
\* (stated here for arrays without undefined items, which the loop skips).
ConcurrencyFulfilsComplete ==
    (combinator = "concurrency" /\ AllItemsDefined /\ returned.state = "fulfilled")
    => \A k \in 1..Len(items) : task[k] = "fulfilled" /\ results[k] = ValueOf(k)

\* C10: if a task started by concurrency, parallel or series rejects, the returned
\* promise rejects and never fulfils: no state has it fulfilled beside a rejected
\* task.
RejectionPropagates ==
    returned.state = "fulfilled" => \A k \in 1..Len(task) : task[k] # "rejected"

\* the part of C10 that is about parallel and series
RejectionPropagatesParallelSeries ==
    combinator \in {"parallel", "series"} => RejectionPropagates

-----------------------------------------------------------------------------
(* Normalizing options: StandardErrorHandler.normalize of a handler built  *)
(* by createErrorHandler(handlerDefaults, factory), and normalizeOptions   *)
(* (runtime/internal/options.ts).  An options record carries a number, an  *)
(* error policy and a nested record.                                       *)

\* a nested record { <keys>: ... } held by the property details
Details(keys) == JSVal("object", 0, keys)

NoOptions == [size |-> Absent, onError |-> Absent, details |-> Absent]
OptionFields == DOMAIN NoOptions

\* normalizeOptions(input, defaults): a falsy input yields defaults itself
normalizeOptions(input, defaults) ==
    IF Falsy(input.prim)
    THEN defaults
    ELSE [f \in DOMAIN defaults |->
            IF input.rec[f] = Absent THEN defaults[f] ELSE input.rec[f]]

\* the normalizer under study applied to input
Normalizer(input) ==
    IF normalizer = "normalize"
    THEN normalize("errorHandler", input.rec)
    ELSE normalizeOptions(input, handlerDefaults)

DefaultsRecords ==
    [size : {Absent, Num(1), Num(2)},
     onError : {Str("throw"), Str("return")},
     details : {Absent, Details("x")}]
PartialRecords ==
    [size : {Absent, Undefined, Num(2), Num(3)},
     onError : {Absent, Undefined, Str("throw"), Str("return")},
     details : {Absent, Undefined, Details("x"), Details("y")}]
Partials ==
    {ArgRec(r) : r \in PartialRecords}
    \cup {ArgPrim(v, NoOptions) : v \in {Undefined, Null}}

InitNormalize ==
    /\ normalizer \in {"normalize", "normalizeOptions"}
    /\ handlerDefaults \in DefaultsRecords
    /\ partial \in Partials
    /\ normalizedOnce = <<>>
    /\ normalizedTwice = <<>>
    /\ ArrayIdle
    /\ AsyncIdle
    /\ DualIdle
    /\ RestIdle

\* N = normalize(P)
Normalize ==
    /\ normalizedOnce = <<>>
    /\ normalizedOnce' = <<Normalizer(partial)>>
    /\ UNCHANGED <<normalizer, handlerDefaults, partial, normalizedTwice>>
    /\ UNCHANGED <<arrayVars, asyncVars, dualVars, restVars>>

\* normalize(N)
NormalizeAgain ==
    /\ normalizedOnce # <<>>
    /\ normalizedTwice = <<>>
    /\ normalizedTwice' = <<Normalizer(ArgRec(normalizedOnce[1]))>>
    /\ UNCHANGED <<normalizer, handlerDefaults, partial, normalizedOnce>>
    /\ UNCHANGED <<arrayVars, asyncVars, dualVars, restVars>>

NextNormalize ==
    \/ Normalize
    \/ NormalizeAgain

SpecNormalize == InitNormalize /\ [][NextNormalize]_vars

\* C11: normalize(P) has, field by field, P's value where P has the field and D's
\* value where it has not; a nested record of P replaces that of D whole.
NormalizeMergesShallow ==
    normalizedOnce # <<>> =>
        \A f \in OptionFields :
            normalizedOnce[1][f] =
                IF partial.rec[f] = Absent THEN handlerDefaults[f] ELSE partial.rec[f]

NormalizeMergesWitness ==
    /\ normalizedOnce # <<>>
    /\ partial.rec.size = Absent
    /\ handlerDefaults.size = Num(1)
    /\ partial.rec.onError = Undefined
    /\ partial.rec.details = Details("y")
    /\ handlerDefaults.details = Details("x")

\* C12: a field of P whose value is undefined leaves D's value in normalize(P).
UndefinedKeepsDefault ==
    normalizedOnce # <<>> =>
        \A f \in OptionFields :
            partial.rec[f] = Undefined => normalizedOnce[1][f] = handlerDefaults[f]

\* C12 (amended): a field of P overrides the default whenever P has it, also when
\* its value is undefined: { size: undefined } normalizes to size undefined and
\* { onError: undefined } to onError undefined; only a field P lacks keeps D's value.
UndefinedOverridesDefault ==
    normalizedOnce # <<>> =>
        \A f \in OptionFields :
            /\ partial.rec[f] = Undefined => normalizedOnce[1][f] = Undefined
            /\ partial.rec[f] = Absent => normalizedOnce[1][f] = handlerDefaults[f]

UndefinedOverridesWitness ==
    /\ normalizedOnce # <<>>
    /\ partial.rec.size = Undefined
    /\ handlerDefaults.size = Num(1)
    /\ normalizedOnce[1].size = Undefined
    /\ partial.rec.onError = Undefined
    /\ partial.rec.details = Absent

\* C13: normalizing a normalized record gives that record again, field for field.
NormalizeIdempotent ==
    normalizedTwice # <<>> =>
        \A f \in OptionFields : normalizedTwice[1][f] = normalizedOnce[1][f]

NormalizeIdempotentWitness ==
    /\ normalizedTwice # <<>>
    /\ partial.prim = Obj
    /\ partial.rec.size = Num(3)
    /\ partial.rec.details = Details("y")
    /\ handlerDefaults.details = Details("x")
    /\ handlerDefaults.size = Num(1)

-----------------------------------------------------------------------------
(* createDualApi and createDualApiStrict (internal/curry-helper).  Objects *)
(* carry their identity in n and their prototype in s; the implementation  *)
(* is an opaque function, so a call on it is the pair it received.         *)

MaxCalls == 2      \* most calls made on one curried function

Arr(ref) == JSVal("array", ref, "Array.prototype")
Plain(ref) == JSVal("object", ref, "Object.prototype")
Bare(ref) == JSVal("object", ref, "null")              \* Object.create(null)
Instance(ref) == JSVal("object", ref, "Date.prototype")
\* the record {} the dual function creates
EmptyOptions == Plain(0)

\* implementation(d, o) was called and its result handed back
ImplCall(d, o) == [kind |-> "result", data |-> d, options |-> o]
\* (data) => implementation(data, o)
Curried(o) == [kind |-> "function", data |-> Absent, options |-> o]

ArrayIsArray(value) == value.t = "array"

\* no value counts as a plain record
isPlainObject_never(value) == FALSE

isPlainObject(value) ==
    IF typeOf(value) # "object" \/ value = Null
    THEN FALSE
    ELSE value.s \in {"null", "Object.prototype"}

\* { ...value }: another object with the same prototype
copyOf(value) ==
    IF typeOf(value) = "object" /\ value # Null THEN [value EXCEPT !.n = 0] ELSE value

\* hands the implementation a copy of the options
createDualApi_copiesOptions(dataOrOptions, optionsOrUndefined) ==
    IF optionsOrUndefined # Undefined
    THEN ImplCall(dataOrOptions, copyOf(optionsOrUndefined))
    ELSE IF ArrayIsArray(dataOrOptions)
            \/ (typeOf(dataOrOptions) = "object" /\ dataOrOptions # Null
                /\ ~isPlainObject(dataOrOptions))
    THEN ImplCall(dataOrOptions, EmptyOptions)
    ELSE Curried(copyOf(dataOrOptions))

\* takes every falsy second argument for a missing one
createDualApi_truthySecond(dataOrOptions, optionsOrUndefined) ==
    IF ~Falsy(optionsOrUndefined)
    THEN ImplCall(dataOrOptions, optionsOrUndefined)
    ELSE IF ArrayIsArray(dataOrOptions)
            \/ (typeOf(dataOrOptions) = "object" /\ dataOrOptions # Null
                /\ ~isPlainObject(dataOrOptions))
    THEN ImplCall(dataOrOptions, EmptyOptions)
    ELSE Curried(dataOrOptions)

createDualApi(dataOrOptions, optionsOrUndefined) ==
    IF optionsOrUndefined # Undefined
    THEN ImplCall(dataOrOptions, optionsOrUndefined)
    ELSE IF ArrayIsArray(dataOrOptions)
            \/ (typeOf(dataOrOptions) = "object" /\ dataOrOptions # Null
                /\ ~isPlainObject(dataOrOptions))
    THEN ImplCall(dataOrOptions, EmptyOptions)
    ELSE Curried(dataOrOptions)

\* the predicate handed to createDualApiStrict, by name
IsData(check, value) ==
    CASE check = "Array.isArray" -> ArrayIsArray(value)
      [] check = "isString" -> typeOf(value) = "string"
      [] OTHER -> typeOf(value) = "object" /\ value # Null

\* decides by Array.isArray whatever predicate was handed over
createDualApiStrict_arraysOnly(check, dataOrOptions, optionsOrUndefined) ==
    IF optionsOrUndefined # Undefined
    THEN ImplCall(dataOrOptions, optionsOrUndefined)
    ELSE IF ArrayIsArray(dataOrOptions)
    THEN ImplCall(dataOrOptions, EmptyOptions)
    ELSE Curried(dataOrOptions)

createDualApiStrict(check, dataOrOptions, optionsOrUndefined) ==
    IF optionsOrUndefined # Undefined
    THEN ImplCall(dataOrOptions, optionsOrUndefined)
    ELSE IF IsData(check, dataOrOptions)
    THEN ImplCall(dataOrOptions, EmptyOptions)
    ELSE Curried(dataOrOptions)

\* the function the factory under study returned, applied to its arguments
DualFunction(dataOrOptions, optionsOrUndefined) ==
    IF factory = "createDualApi"
    THEN createDualApi(dataOrOptions, optionsOrUndefined)
    ELSE createDualApiStrict(isDataCheck, dataOrOptions, optionsOrUndefined)

DualValues ==
    {Arr(1), Plain(2), Bare(3), Instance(4), Str("a"), Num(1), Null, Undefined}

InitDual ==
    /\ \/ factory = "createDualApi" /\ isDataCheck = "none"
       \/ factory = "createDualApiStrict"
          /\ isDataCheck \in {"Array.isArray", "isString", "isObject"}
    /\ first \in DualValues
    /\ \/ argc = 1 /\ second = Undefined
       \/ argc = 2 /\ second \in DualValues
    /\ ret = <<>>
    /\ given = <<>>
    /\ calls = <<>>
    /\ ArrayIdle
    /\ AsyncIdle
    /\ NormIdle
    /\ RestIdle

\* f(first) or f(first, second); a missing second parameter reads undefined
Invoke ==
    /\ ret = <<>>
    /\ ret' = <<DualFunction(first, second)>>
    /\ calls' = IF DualFunction(first, second).kind = "result"
                THEN <<[data |-> first, options |-> DualFunction(first, second).options]>>
                ELSE <<>>
    /\ UNCHANGED <<factory, isDataCheck, argc, first, second, given>>
    /\ UNCHANGED <<arrayVars, asyncVars, normVars, restVars>>

\* g(d) on the function g a call returned
InvokeCurried ==
    /\ ret # <<>>
    /\ ret[1].kind = "function"
    /\ Len(given) < MaxCalls
    /\ \E d \in DualValues :
          /\ given' = Append(given, d)
          /\ calls' = Append(calls, [data |-> d, options |-> ret[1].options])
    /\ UNCHANGED <<factory, isDataCheck, argc, first, second, ret>>
    /\ UNCHANGED <<arrayVars, asyncVars, normVars, restVars>>

NextDual ==
    \/ Invoke
    \/ InvokeCurried

SpecDual == InitDual /\ [][NextDual]_vars

\* C14: a call with two arguments, whatever the second is, calls
\* implementation(first, second) at once and returns its result, never a function.
TwoArgumentsCallAtOnce ==
    (argc = 2 /\ ret # <<>>) =>
        /\ ret[1] = ImplCall(first, second)
        /\ Len(calls) >= 1
        /\ calls[1] = [data |-> first, options |-> second]

\* C14 (amended): a call with two arguments whose second is not undefined calls
\* implementation(first, second) at once and returns its result, never a function.
TwoDefinedArgumentsCallAtOnce ==
    (argc = 2 /\ second # Undefined /\ ret # <<>>) =>
        /\ ret[1] = ImplCall(first, second)
        /\ calls = <<[data |-> first, options |-> second]>>

TwoDefinedArgumentsWitness ==
    /\ argc = 2
    /\ first = Plain(2)
    /\ second = Null
    /\ ret # <<>>
    /\ given = <<>>

\* C15: createDualApiStrict called with one argument a calls implementation(a, {})
\* at once when isData(a) holds, and otherwise returns a function g whose every
\* call g(d) calls implementation(d, a) with that very a.
StrictOneArgument ==
    (factory = "createDualApiStrict" /\ argc = 1 /\ ret # <<>>) =>
        IF IsData(isDataCheck, first)
        THEN /\ ret[1] = ImplCall(first, EmptyOptions)
             /\ calls = <<[data |-> first, options |-> EmptyOptions]>>
        ELSE /\ ret[1].kind = "function"
             /\ Len(calls) = Len(given)
             /\ \A k \in 1..Len(calls) : calls[k] = [data |-> given[k], options |-> first]

StrictOneArgumentWitness ==
    /\ factory = "createDualApiStrict"
    /\ argc = 1
    /\ isDataCheck = "isString"
    /\ first = Plain(2)
    /\ Len(given) = MaxCalls
    /\ given[1] # given[2]

\* C16: createDualApi called with one argument takes an array as data (the
\* implementation is called at once with {}) and a plain record as options (a
\* function is returned and the implementation is not called before data comes).
DualApiOneArgument ==
    (factory = "createDualApi" /\ argc = 1 /\ ret # <<>>) =>
        /\ first.t = "array" =>
              /\ ret[1] = ImplCall(first, EmptyOptions)
              /\ calls = <<[data |-> first, options |-> EmptyOptions]>>
        /\ (first.t = "object" /\ first.s = "Object.prototype") =>
              /\ ret[1] = Curried(first)
              /\ Len(calls) = Len(given)

DualApiOneArgumentWitness ==
    /\ factory = "createDualApi"
    /\ argc = 1
    /\ first = Plain(2)
    /\ ret # <<>>
    /\ calls = <<>>

\* C17: the implementation receives the very options value the caller supplied,
\* and the empty record {} when the caller supplied data alone.
OptionsPassedThrough ==
    ret # <<>> =>
        /\ ret[1].kind = "result" =>
              calls = <<[data |-> first,
                         options |-> IF second = Undefined THEN EmptyOptions ELSE second]>>
        /\ ret[1].kind = "function" =>
              \A k \in 1..Len(calls) : calls[k].options = first

OptionsPassedThroughWitness ==
    /\ argc = 2
    /\ second = Plain(2)
    /\ calls # <<>>
    /\ calls[1].options = Plain(2)

-----------------------------------------------------------------------------
(* What chunk and groupBy return                                           *)

\* the chunks put one after the other
RECURSIVE Flatten(_)
Flatten(chunks) == IF chunks = <<>> THEN <<>> ELSE Head(chunks) \o Flatten(Tail(chunks))

\* chunks cut array into pieces of size s, the last one possibly shorter
Partitions(chunks, array, s) ==
    /\ Flatten(chunks) = array
    /\ \A k \in 1..Len(chunks) :
          IF k < Len(chunks) THEN Len(chunks[k]) = s ELSE Len(chunks[k]) \in 1..s

\* the call names a size s >= 1 in an options record
ValidSizeRecord ==
    /\ op = "chunk"
    /\ arg.prim = Obj
    /\ typeOf(arg.rec.size) = "number"
    /\ ~NumberIsNaN(arg.rec.size)
    /\ arg.rec.size.n >= 1

ChunkPartitionsOutcome(o) ==
    o # Pending => Succeeded(o) /\ Partitions(o.value, data, arg.rec.size.n)

\* C18: chunk(A, {size: s}) with s >= 1 returns chunks whose concatenation is A, all
\* of s elements but the last, which has 1..s; [1,2,3,4,5] by 2 gives
\* [[1,2],[3,4],[5]]; the array handed in stays as it was.
ChunkPartitions ==
    /\ [](ValidSizeRecord => ChunkPartitionsOutcome(outFirst) /\ ChunkPartitionsOutcome(outLast))
    /\ [](chunkDataFirst(<<1, 2, 3, 4, 5>>, ArgRec([NoChunkOptions EXCEPT !.size = Num(2)]))
            = Raw(<<<<1, 2>>, <<3, 4>>, <<5>>>>))
    /\ [][data' = data]_vars

ChunkPartitionsWitness ==
    /\ ValidSizeRecord
    /\ arg.rec.size = Num(2)
    /\ Len(data) = 3
    /\ outFirst # Pending
    /\ Len(outFirst.value) = 2
    /\ outLast # Pending

\* the key the selector of the call yields for item
GroupKey(item) == selectKey(UsedOptions(arg).selector, item)

\* the call is a groupBy with a property key or a function as selector
HasSelector ==
    /\ op = "groupBy"
    /\ typeOf(UsedOptions(arg).selector) \in {"string", "function", "number"}

\* the items of array whose key has the string form key, in their order in array
RECURSIVE ItemsWithKey(_, _)
ItemsWithKey(array, key) ==
    IF array = <<>> THEN <<>>
    ELSE IF StringOf(GroupKey(Head(array))) = key
    THEN <<Head(array)>> \o ItemsWithKey(Tail(array), key)
    ELSE ItemsWithKey(Tail(array), key)

RECURSIVE SumOfLengths(_)
SumOfLengths(groups) ==
    IF groups = <<>> THEN 0 ELSE Len(Head(groups).items) + SumOfLengths(Tail(groups))

\* groups is the mapping that sorts the items of array by the string form of their key
IsGrouping(groups, array) ==
    /\ {groups[k].key : k \in 1..Len(groups)}
         = {StringOf(GroupKey(array[j])) : j \in 1..Len(array)}
    /\ \A k, l \in 1..Len(groups) : groups[k].key = groups[l].key => k = l
    /\ \A k \in 1..Len(groups) : groups[k].items = ItemsWithKey(array, groups[k].key)
    /\ SumOfLengths(groups) = Len(array)

GroupingOutcome(o) == o # Pending => Succeeded(o) /\ IsGrouping(o.value, data)

SomeKeyUndefined ==
    /\ HasSelector
    /\ \E j \in 1..Len(data) : GroupKey(data[j]) = Undefined

\* the items whose key is undefined make up the group "undefined"
UndefinedBucket(o) ==
    /\ Succeeded(o)
    /\ \E k \in 1..Len(o.value) :
          /\ o.value[k].key = "undefined"
          /\ o.value[k].items = ItemsWithKey(data, "undefined")

FailureResult(o) == o.tag = "Result" /\ ~o.ok

\* C20: with an undefined key for some item, allowUndefinedKey false or omitted and
\* onError 'return' give a failure Result, and allowUndefinedKey: true makes the
\* call succeed with those items under "undefined".
AllowUndefinedKeyGroups ==
    (SomeKeyUndefined /\ arg.prim = Obj /\ arg.rec.allowUndefined = Absent) =>
        \A o \in {outFirst, outLast} :
            o # Pending =>
                /\ (arg.rec.allowUndefinedKey \in {Absent, Bool(FALSE)}
                    /\ arg.rec.onError = Str("return")) => FailureResult(o)
                /\ arg.rec.allowUndefinedKey = Bool(TRUE) => UndefinedBucket(o)

\* C20 (amended): the option is allowUndefined. With an undefined key for some item,
\* allowUndefined false or omitted and onError 'return' give a failure Result, and
\* allowUndefined: true makes the call succeed with those items under "undefined".
AllowUndefinedGroups ==
    SomeKeyUndefined =>
        \A o \in {outFirst, outLast} :
            o # Pending =>
                /\ (AsRecord(arg).allowUndefined \in {Absent, Bool(FALSE)}
                    /\ AsRecord(arg).onError = Str("return")) => FailureResult(o)
                /\ AsRecord(arg).allowUndefined = Bool(TRUE) => UndefinedBucket(o)

AllowUndefinedWitness ==
    /\ SomeKeyUndefined
    /\ arg.prim = Obj
    /\ arg.rec.allowUndefined = Bool(TRUE)
    /\ Len(data) = 3
    /\ data[1].id = 4
    /\ data[2].id = 1
    /\ data[3].id = 4
    /\ outFirst # Pending
    /\ outLast # Pending
    /\ Len(outLast.value) = 2

-----------------------------------------------------------------------------
(* The shorthand for the primary option                                    *)

\* the caller wrote a bare size (chunk) or a bare selector (groupBy)
IsShorthand ==
    \/ op = "chunk" /\ typeOf(arg.prim) = "number"
    \/ op = "groupBy" /\ typeOf(arg.prim) \in {"string", "function", "number"}

\* C21: chunk(A, n) ends as chunk(A, {size: n}) does and groupBy(A, s) as
\* groupBy(A, {selector: s}) does, data-first and curried, succeeding or failing.
ShorthandEquivalence ==
    IsShorthand =>
        /\ outFirst # Pending =>
              SameOutcome(outFirst, Call("first", data, ArgRec(AsRecord(arg))))
        /\ outLast # Pending =>
              SameOutcome(outLast, Call("last", data, ArgRec(AsRecord(arg))))

ShorthandWitness ==
    /\ op = "groupBy"
    /\ arg.prim = Str("type")
    /\ Len(data) = 2
    /\ data[2].id = 4
    /\ outFirst.tag = "thrown"
    /\ outLast.tag = "thrown"

-----------------------------------------------------------------------------
(* The global error factory (internal/error-factory) and the errors of     *)
(* failing chunk and groupBy calls                                         *)

MaxFailLen == 1    \* longest data array of a call made under a chosen factory

DefaultFactory == "UtilsErrorFactory"
CustomFactories == {"KitiumErrorFactory", "OtherErrorFactory"}

\* factory.create(context): UtilsErrorFactory builds a UtilsError, a custom
\* factory an error of its own kind
create(errorFactoryName, context) ==
    [name |-> IF errorFactoryName = DefaultFactory THEN "UtilsError"
              ELSE IF errorFactoryName = "KitiumErrorFactory" THEN "KitiumError"
              ELSE "OtherError",
     code |-> context.code,
     message |-> context.message]

\* createError(context): globalErrorFactory.create(context)
createError(context) == create(globalErrorFactory, context)

InitFactory ==
    /\ \/ op = "chunk" /\ data \in SeqsUpTo({1, 2}, MaxFailLen) /\ arg \in ChunkArgs
       \/ op = "groupBy" /\ data \in SeqsUpTo(GroupItems, MaxFailLen) /\ arg \in GroupByArgs
    /\ closure = <<>>
    /\ outFirst = Pending
    /\ outLast = Pending
    /\ globalErrorFactory = DefaultFactory
    /\ OutsideFactoryIdle

\* setErrorFactory(f)
SetErrorFactory ==
    /\ \E f \in CustomFactories : globalErrorFactory' = f
    /\ UNCHANGED <<arrayVars, outsideFactory>>

\* resetErrorFactory()
ResetErrorFactory ==
    /\ globalErrorFactory' = DefaultFactory
    /\ UNCHANGED <<arrayVars, outsideFactory>>

NextFactory ==
    \/ SetErrorFactory
    \/ ResetErrorFactory
    \/ ChunkFirst
    \/ ChunkCurry
    \/ ChunkApply
    \/ GroupByFirst
    \/ GroupByCurry
    \/ GroupByApply

SpecFactory == InitFactory /\ [][NextFactory]_vars

\* the call that ends in this step fails with an error the installed factory built
BuiltByInstalled(before, after) ==
    (before = Pending /\ after # Pending /\ Failed(after)) =>
        after.error = create(globalErrorFactory, after.error)

\* C22: while a factory f set by setErrorFactory is installed, every error of a
\* failing chunk or groupBy call, thrown or returned in a Result, is built by f.
InstalledFactoryBuildsErrors ==
    [][(globalErrorFactory \in CustomFactories) =>
          (BuiltByInstalled(outFirst, outFirst') /\ BuiltByInstalled(outLast, outLast'))]_vars

-----------------------------------------------------------------------------
(* The global configuration (config.ts)                                    *)

MaxConfigCalls == 3    \* most setUtilsConfig calls made

ConfigFields == {"enableIntegrations", "standalone"}

\* let globalConfig = { enableIntegrations: true, standalone: false }
InitialConfig == [enableIntegrations |-> Bool(TRUE), standalone |-> Bool(FALSE)]

\* the UtilsConfig records a caller can hand over
ConfigArgs ==
    [enableIntegrations : {Absent, Undefined, Bool(TRUE), Bool(FALSE)},
     standalone : {Absent, Undefined, Bool(TRUE), Bool(FALSE)}]

\* the call puts config in the place of the configuration
setUtilsConfig_replaces(config) ==
    [f \in ConfigFields |-> IF config[f] = Absent THEN Undefined ELSE config[f]]

\* { ...globalConfig, ...config }
setUtilsConfig(config) ==
    [f \in ConfigFields |-> IF config[f] = Absent THEN globalConfig[f] ELSE config[f]]

isIntegrationsEnabled ==
    globalConfig.enableIntegrations # Bool(FALSE) /\ globalConfig.standalone # Bool(TRUE)

InitConfig ==
    /\ globalConfig = InitialConfig
    /\ configLog = <<>>
    /\ OutsideConfigIdle

\* setUtilsConfig(config)
SetUtilsConfig ==
    /\ Len(configLog) < MaxConfigCalls
    /\ \E config \in ConfigArgs :
          /\ globalConfig' = setUtilsConfig(config)
          /\ configLog' = Append(configLog, config)
    /\ UNCHANGED outsideConfig

NextConfig == SetUtilsConfig

SpecConfig == InitConfig /\ [][NextConfig]_vars

\* the value the latest call that supplied field f gave it, or the initial value
RECURSIVE LatestSupplied(_, _)
LatestSupplied(log, f) ==
    IF log = <<>> THEN InitialConfig[f]
    ELSE IF log[Len(log)][f] # Absent THEN log[Len(log)][f]
    ELSE LatestSupplied(SubSeq(log, 1, Len(log) - 1), f)

\* C23: after any setUtilsConfig calls every field holds what the latest call that
\* supplied it gave, and isIntegrationsEnabled() is false exactly when standalone
\* is true or enableIntegrations is false in that accumulated configuration.
ConfigAccumulates ==
    configLog # <<>> =>
        /\ \A f \in ConfigFields : globalConfig[f] = LatestSupplied(configLog, f)
        /\ ~isIntegrationsEnabled <=>
              \/ LatestSupplied(configLog, "standalone") = Bool(TRUE)
              \/ LatestSupplied(configLog, "enableIntegrations") = Bool(FALSE)

ConfigWitness ==
    /\ Len(configLog) = 3
    /\ configLog[1].standalone = Bool(TRUE)
    /\ configLog[1].enableIntegrations = Absent
    /\ configLog[2].standalone = Absent
    /\ configLog[2].enableIntegrations = Bool(TRUE)
    /\ ~isIntegrationsEnabled
    /\ configLog[3].standalone = Absent

-----------------------------------------------------------------------------
(* chunkImpl and groupByImpl step by step: one step for entering the       *)
(* implementation, one per iteration of groupBy's for-of loop, one for the *)
(* final return.  The run counts the errors and Results it constructs.     *)

\* 1 when a Result is built under the policy onError, else 0
ResultsBuilt(onError) == IF onError = Str("return") THEN 1 ELSE 0

InitRun ==
    /\ \/ op = "chunk" /\ data \in ChunkData /\ arg \in ChunkArgs
       \/ op = "groupBy" /\ data \in GroupData /\ arg \in GroupByArgs
    /\ closure = <<>>
    /\ outFirst = Pending
    /\ outLast = Pending
    /\ runPc = "start"
    /\ runOptions = <<>>
    /\ runIndex = 0
    /\ runResult = <<>>
    /\ keyCalls = <<>>
    /\ errorCount = 0
    /\ resultCount = 0
    /\ runOut = <<>>
    /\ OutsideRunIdle

\* chunk(data, arg): chunkImpl has no failure inside its loop and runs in one step
ChunkRun ==
    /\ op = "chunk"
    /\ runPc = "start"
    /\ LET options == normalizeChunkOptions(arg)
           invalid == \/ typeOf(options.size) # "number" \/ NumberIsNaN(options.size)
                      \/ options.size.n <= 0
       IN  /\ runOptions' = <<options>>
           /\ runOut' = <<chunkImpl(data, options)>>
           /\ errorCount' = IF invalid THEN errorCount + 1 ELSE errorCount
           /\ resultCount' =
                 resultCount + ResultsBuilt(IF invalid THEN Coalesce(options.onError, Str("throw"))
                                            ELSE options.onError)
    /\ runPc' = "done"
    /\ UNCHANGED <<runIndex, runResult, keyCalls>>
    /\ UNCHANGED <<arrayVars, outsideRun>>

\* groupBy(data, arg) up to the for-of loop
GroupByEnter ==
    /\ op = "groupBy"
    /\ runPc = "start"
    /\ LET options == normalizeGroupByOptions(arg)
       IN  /\ runOptions' = <<options>>
           /\ IF options.selector = Undefined
              THEN /\ runOut' = <<groupByImpl(data, options)>>
                   /\ errorCount' = errorCount + 1
                   /\ resultCount' = resultCount + ResultsBuilt(options.onError)
                   /\ runPc' = "done"
                   /\ UNCHANGED runIndex
              ELSE /\ runPc' = "loop"
                   /\ runIndex' = 1
                   /\ UNCHANGED <<runOut, errorCount, resultCount>>
    /\ UNCHANGED <<runResult, keyCalls>>
    /\ UNCHANGED <<arrayVars, outsideRun>>

\* an undefined key is noted and the loop goes on with the next item
GroupByIterate_collectsAll ==
    /\ runPc = "loop"
    /\ runIndex <= Len(data)
    /\ LET options == runOptions[1]
           item == data[runIndex]
           key == selectKey(options.selector, item)
       IN  /\ keyCalls' = Append(keyCalls, runIndex)
           /\ runIndex' = runIndex + 1
           /\ IF key \in {Undefined, Null} /\ Falsy(options.allowUndefined)
              THEN /\ errorCount' = errorCount + 1
                   /\ UNCHANGED runResult
              ELSE /\ runResult' = pushGroup(runResult, StringOf(key), item)
                   /\ UNCHANGED errorCount
    /\ UNCHANGED <<runPc, runOptions, resultCount, runOut>>
    /\ UNCHANGED <<arrayVars, outsideRun>>

\* one iteration of for (const item of array)
GroupByIterate ==
    /\ runPc = "loop"
    /\ runIndex <= Len(data)
    /\ LET options == runOptions[1]
           item == data[runIndex]
           key == selectKey(options.selector, item)
       IN  /\ keyCalls' = Append(keyCalls, runIndex)
           /\ IF key \in {Undefined, Null} /\ Falsy(options.allowUndefined)
              THEN /\ runOut' =
                        <<IF options.onError = Str("return")
                          THEN handleError("groupByErrorHandler",
                                           [options EXCEPT !.onError = Str("return")])
                          ELSE Thrown(PlainError("groupBy selector returned an undefined key"))>>
                   /\ errorCount' = errorCount + 1
                   /\ resultCount' = resultCount + ResultsBuilt(options.onError)
                   /\ runPc' = "done"
                   /\ UNCHANGED <<runIndex, runResult>>
              ELSE /\ runResult' = pushGroup(runResult, StringOf(key), item)
                   /\ runIndex' = runIndex + 1
                   /\ UNCHANGED <<runPc, runOut, errorCount, resultCount>>
    /\ UNCHANGED runOptions
    /\ UNCHANGED <<arrayVars, outsideRun>>

\* return options.onError === 'return' ? ok(result) : result
GroupByReturn ==
    /\ runPc = "loop"
    /\ runIndex > Len(data)
    /\ runOut' = <<IF runOptions[1].onError = Str("return")
                   THEN ok(runResult) ELSE Raw(runResult)>>
    /\ resultCount' = resultCount + ResultsBuilt(runOptions[1].onError)
    /\ runPc' = "done"
    /\ UNCHANGED <<runOptions, runIndex, runResult, keyCalls, errorCount>>
    /\ UNCHANGED <<arrayVars, outsideRun>>

NextRun ==
    \/ ChunkRun
    \/ GroupByEnter
    \/ GroupByIterate
    \/ GroupByReturn

SpecRun == InitRun /\ [][NextRun]_vars

\* the stepwise run ends as the implementation in one piece does
RunAgreesWithImpl ==
    runOut # <<>> =>
        runOut[1] = IF op = "chunk" THEN chunkDataFirst(data, arg)
                    ELSE groupByDataFirst(data, arg)

\* the key of the item at position j is undefined (or null) and not allowed
NotAllowedAt(j) ==
    /\ GroupKey(data[j]) \in {Undefined, Null}
    /\ Falsy(UsedOptions(arg).allowUndefined)

\* C24: a run of chunk or groupBy constructs at most one error and at most one
\* Result; groupBy ends at the first item whose key is undefined and not allowed:
\* the selector has been applied to the items up to that one and to no later one,
\* and the outcome is the failure alone, without the groups built so far.
OneErrorPerRun ==
    /\ errorCount <= 1
    /\ resultCount <= 1
    /\ (HasSelector /\ runPc = "done" /\ \E j \in 1..Len(data) : NotAllowedAt(j)) =>
          LET k == CHOOSE j \in 1..Len(data) :
                        NotAllowedAt(j) /\ \A h \in 1..(j - 1) : ~NotAllowedAt(h)
          IN  /\ keyCalls = [j \in 1..k |-> j]
              /\ errorCount = 1
              /\ Failed(runOut[1])
              /\ runOut[1].value = NoValue

OneErrorWitness ==
    /\ op = "groupBy"
    /\ runPc = "done"
    /\ Len(data) = 3
    /\ data[1].id = 1
    /\ data[2].id = 4
    /\ data[3].id = 4
    /\ keyCalls = <<1, 2>>
    /\ resultCount = 1
    /\ errorCount = 1

-----------------------------------------------------------------------------
(* Normalizing again and again, with the caller writing to the records the *)
(* calls returned.  A returned record is a fresh object or the defaults    *)
(* object itself; a write to the latter is a write to the defaults.        *)

MaxNormalizeCalls == 2    \* most normalize calls made on one input

\* the object the normalizer returns for input: a new one, or defaults itself
\* (normalizeOptions: if (!input) return defaults)
ReturnedObject(input) ==
    IF normalizer = "normalizeOptions" /\ Falsy(input.prim) THEN "defaults" ELSE "fresh"

\* what a caller writes into a field of a record it was handed
WrittenValue(f) ==
    CASE f = "size" -> Num(3)
      [] f = "onError" -> Str("return")
      [] OTHER -> Details("z")

InitAlias ==
    /\ normalizer \in {"normalize", "normalizeOptions"}
    /\ handlerDefaults \in DefaultsRecords
    /\ partial \in {ArgRec(r) : r \in [size : {Absent, Num(2)}, onError : {Absent, Undefined},
                                        details : {Absent, Details("y")}]}
                   \cup {ArgPrim(v, NoOptions) : v \in {Undefined, Null}}
    /\ normalizedOnce = <<>>
    /\ normalizedTwice = <<>>
    /\ returnedRecords = <<>>
    /\ latest = <<>>
    /\ OutsideAliasIdle

\* normalize(P) once more, on the same P
NormalizeSame ==
    /\ Len(returnedRecords) < MaxNormalizeCalls
    /\ latest' = <<Normalizer(partial)>>
    /\ normalizedOnce' = IF normalizedOnce = <<>> THEN <<Normalizer(partial)>> ELSE normalizedOnce
    /\ returnedRecords' = Append(returnedRecords,
                                 [object |-> ReturnedObject(partial), rec |-> Normalizer(partial)])
    /\ UNCHANGED <<normalizer, handlerDefaults, partial, normalizedTwice>>
    /\ UNCHANGED outsideAlias

\* the caller assigns to a field of a record a call returned
WriteReturned ==
    /\ \E k \in 1..Len(returnedRecords), f \in OptionFields :
          /\ IF returnedRecords[k].object = "defaults"
             THEN handlerDefaults' = [handlerDefaults EXCEPT ![f] = WrittenValue(f)]
             ELSE UNCHANGED handlerDefaults
          /\ returnedRecords' =
                [j \in 1..Len(returnedRecords) |->
                    IF j = k \/ (returnedRecords[j].object = "defaults"
                                 /\ returnedRecords[k].object = "defaults")
                    THEN [returnedRecords[j] EXCEPT !.rec[f] = WrittenValue(f)]
                    ELSE returnedRecords[j]]
    /\ UNCHANGED <<normalizer, partial, normalizedOnce, normalizedTwice, latest>>
    /\ UNCHANGED outsideAlias

NextAlias ==
    \/ NormalizeSame
    \/ WriteReturned

SpecAlias == InitAlias /\ [][NextAlias]_vars

\* C25: no normalize call and no write to a returned record changes the defaults or
\* the caller's partial record, no returned record is the defaults object, and
\* every normalize of the same input returns what the first one returned.
NormalizeIsolated ==
    /\ [][handlerDefaults' = handlerDefaults /\ partial' = partial]_vars
    /\ [](\A k \in 1..Len(returnedRecords) : returnedRecords[k].object # "defaults")
    /\ [](latest # <<>> => latest = normalizedOnce)

-----------------------------------------------------------------------------
(* The function a curried call returns, called repeatedly while the caller *)
(* writes to the options record it had handed over                         *)

MaxClosureLen == 2     \* longest data array handed to a returned function
MaxApplies == 2        \* most calls made on one returned function

\* what a caller writes into a field of its own options record
OptionWrite(f) ==
    CASE f = "size" -> Num(0)
      [] f = "onError" -> Str("return")
      [] f = "label" -> Str("late")
      [] f = "selector" -> Str("id")
      [] f = "allowUndefined" -> Bool(TRUE)
      [] OTHER -> Bool(TRUE)

InitClosure ==
    /\ \/ op = "chunk" /\ data \in SeqsUpTo({1, 2}, MaxClosureLen) /\ arg \in ChunkArgs
       \/ op = "groupBy" /\ data \in SeqsUpTo(GroupItems, MaxClosureLen)
          /\ arg \in GroupByArgs
    /\ closure = <<>>
    /\ outFirst = Pending
    /\ outLast = Pending
    /\ argAtCurry = <<>>
    /\ applyOuts = <<>>
    /\ OutsideClosureIdle

\* f = chunk(arg) or g = groupBy(arg)
Curry ==
    /\ closure = <<>>
    /\ closure' = <<IF op = "chunk" THEN chunkDataLast(arg) ELSE groupByDataLast(arg)>>
    /\ argAtCurry' = <<arg>>
    /\ UNCHANGED <<op, data, arg, outFirst, outLast, applyOuts>>
    /\ UNCHANGED outsideClosure

\* the caller assigns to a field of the options record it handed to the curried call
WriteOptions ==
    /\ closure # <<>>
    /\ arg.prim = Obj
    /\ arg = argAtCurry[1]
    /\ \E f \in DOMAIN arg.rec :
          /\ arg.rec[f] # OptionWrite(f)
          /\ arg' = ArgRec([arg.rec EXCEPT ![f] = OptionWrite(f)])
    /\ UNCHANGED <<op, data, closure, outFirst, outLast, argAtCurry, applyOuts>>
    /\ UNCHANGED outsideClosure

\* f(data) or g(data)
ApplyReturned ==
    /\ closure # <<>>
    /\ Len(applyOuts) < MaxApplies
    /\ applyOuts' = Append(applyOuts,
                            IF op = "chunk" THEN chunkApply(closure[1], data)
                            ELSE groupByApply(closure[1], data))
    /\ UNCHANGED <<op, data, arg, closure, outFirst, outLast, argAtCurry>>
    /\ UNCHANGED outsideClosure

NextClosure ==
    \/ Curry
    \/ WriteOptions
    \/ ApplyReturned

SpecClosure == InitClosure /\ [][NextClosure]_vars

\* every call made on the returned function ended as the data-first call with the
\* options of the time of the curried call ends
UsesOptionsAtCurry ==
    \A k \in 1..Len(applyOuts) :
        SameOutcome(applyOuts[k], Call("first", data, argAtCurry[1]))

\* C26: the function chunk(options) or groupBy(options) returns works with the
\* options as they were at that call: a later write to the caller's record changes
\* no later call, repeated calls on the same data end the same way, and a call
\* changes neither the caller's options record nor the data array.
ClosureKeepsOptions ==
    /\ []UsesOptionsAtCurry
    /\ [][(applyOuts' # applyOuts) => (arg' = arg /\ data' = data)]_vars

ClosureWitness ==
    /\ op = "chunk"
    /\ argAtCurry # <<>>
    /\ argAtCurry[1].prim = Obj
    /\ argAtCurry[1].rec.size = Num(2)
    /\ arg.rec.size = Num(0)
    /\ Len(data) = 2
    /\ Len(applyOuts) = 2
    /\ Succeeded(applyOuts[2])

-----------------------------------------------------------------------------
(* retry (runtime/async.ts).  The value or error of the k-th fn() call is  *)
(* named by k; the error a throwing onRetry raises is named by OnRetryError.*)

MaxRetries == 3        \* largest options.retries tried

OnRetryError == 0
NoAttempt == 0

RetryPending == [state |-> "pending", of |-> NoAttempt]

InitRetry ==
    /\ retries \in 0..MaxRetries
    /\ delay \in {0, 1000}
    /\ backoff \in {1, 2}
    /\ onRetry \in {"absent", "returns", "throws"}
    /\ attempt = 0
    /\ retryPc = "start"
    /\ running = 0
    /\ outcomes = <<>>
    /\ onRetryLog = <<>>
    /\ waits = <<>>
    /\ lastError = NoAttempt
    /\ retryReturned = RetryPending
    /\ OutsideRetryIdle

\* retry(fn, options) is called: attempt = 0 passes the loop test and fn() starts
RetryCall ==
    /\ retryPc = "start"
    /\ attempt <= retries
    /\ running' = running + 1
    /\ retryPc' = "awaitFn"
    /\ UNCHANGED <<retries, delay, backoff, onRetry, attempt, outcomes, onRetryLog, waits,
                   lastError, retryReturned>>
    /\ UNCHANGED outsideRetry

\* the awaited fn() fulfils: return await fn()
AttemptFulfils ==
    /\ retryPc = "awaitFn"
    /\ running' = running - 1
    /\ outcomes' = Append(outcomes, "ok")
    /\ retryReturned' = [state |-> "fulfilled", of |-> attempt + 1]
    /\ retryPc' = "done"
    /\ UNCHANGED <<retries, delay, backoff, onRetry, attempt, onRetryLog, waits, lastError>>
    /\ UNCHANGED outsideRetry

\* onRetry is called and a sleep follows after the last attempt as well
AttemptRejects_lastToo ==
    /\ retryPc = "awaitFn"
    /\ running' = running - 1
    /\ outcomes' = Append(outcomes, "fail")
    /\ lastError' = attempt + 1
    /\ IF attempt <= retries
       THEN /\ waits' = Append(waits, delay * (backoff ^ attempt))
            /\ onRetryLog' = IF onRetry = "absent" THEN onRetryLog
                             ELSE Append(onRetryLog, attempt + 1)
            /\ IF onRetry = "throws"
               THEN /\ retryReturned' = [state |-> "rejected", of |-> OnRetryError]
                    /\ retryPc' = "done"
               ELSE /\ retryPc' = "sleeping"
                    /\ UNCHANGED retryReturned
            /\ UNCHANGED attempt
       ELSE /\ attempt' = attempt + 1
            /\ retryReturned' = [state |-> "rejected", of |-> attempt + 1]
            /\ retryPc' = "done"
            /\ UNCHANGED <<waits, onRetryLog>>
    /\ UNCHANGED <<retries, delay, backoff, onRetry>>
    /\ UNCHANGED outsideRetry

\* the awaited fn() rejects (or fn threw): the catch block, and when no retry is
\* left the end of the loop and throw lastError
AttemptRejects ==
    /\ retryPc = "awaitFn"
    /\ running' = running - 1
    /\ outcomes' = Append(outcomes, "fail")
    /\ lastError' = attempt + 1
    /\ IF attempt < retries
       THEN /\ waits' = Append(waits, delay * (backoff ^ attempt))
            /\ onRetryLog' = IF onRetry = "absent" THEN onRetryLog
                             ELSE Append(onRetryLog, attempt + 1)
            /\ IF onRetry = "throws"
               THEN /\ retryReturned' = [state |-> "rejected", of |-> OnRetryError]
                    /\ retryPc' = "done"
               ELSE /\ retryPc' = "sleeping"
                    /\ UNCHANGED retryReturned
            /\ UNCHANGED attempt
       ELSE /\ attempt' = attempt + 1
            /\ retryReturned' = [state |-> "rejected", of |-> attempt + 1]
            /\ retryPc' = "done"
            /\ UNCHANGED <<waits, onRetryLog>>
    /\ UNCHANGED <<retries, delay, backoff, onRetry>>
    /\ UNCHANGED outsideRetry

\* the timer of sleep(waitTime) fires: attempt++, the loop test passes, fn() starts
SleepEnds ==
    /\ retryPc = "sleeping"
    /\ attempt' = attempt + 1
    /\ running' = running + 1
    /\ retryPc' = "awaitFn"
    /\ UNCHANGED <<retries, delay, backoff, onRetry, outcomes, onRetryLog, waits, lastError,
                   retryReturned>>
    /\ UNCHANGED outsideRetry

NextRetry ==
    \/ RetryCall
    \/ AttemptFulfils
    \/ AttemptRejects
    \/ SleepEnds

\* every started fn() settles and every timer fires
SpecRetry == InitRetry /\ [][NextRetry]_vars /\ WF_vars(NextRetry)

AttemptsStarted == Len(outcomes) + running

AttemptFailed(k) == k \in 1..Len(outcomes) /\ outcomes[k] = "fail"

OnRetryThrew == retryReturned = [state |-> "rejected", of |-> OnRetryError]

\* the attempts that failed and were not the last one allowed
RetriedAttempts == IF Len(outcomes) = 0 THEN 0
                   ELSE IF outcomes[Len(outcomes)] = "ok" THEN Len(outcomes) - 1
                   ELSE IF Len(outcomes) <= retries THEN Len(outcomes) ELSE retries

RetrySafe ==
    /\ AttemptsStarted <= retries + 1
    /\ running <= 1
    /\ \A k \in 1..Len(outcomes) :
          outcomes[k] = "ok" => (k = Len(outcomes) /\ running = 0 /\ retryPc = "done")
    /\ (retryReturned.state = "fulfilled") <=>
          (Len(outcomes) > 0 /\ outcomes[Len(outcomes)] = "ok")
    /\ (retryReturned.state = "fulfilled") => retryReturned.of = Len(outcomes)
    /\ (Len(outcomes) = retries + 1 /\ AttemptFailed(retries + 1)) =>
          retryReturned = [state |-> "rejected", of |-> retries + 1]
    /\ (retryReturned.state = "rejected" /\ ~OnRetryThrew) =>
          (Len(outcomes) = retries + 1 /\ \A k \in 1..(retries + 1) : AttemptFailed(k))
    /\ onRetryLog = IF onRetry = "absent" THEN <<>> ELSE [k \in 1..RetriedAttempts |-> k]

\* C27: retry(fn, {retries: r}) starts fn at most r + 1 times, one call at a time and
\* none after a call that fulfilled; it fulfils with the value of the first call that
\* fulfilled, rejects with the error of call r + 1 when all r + 1 calls failed, calls
\* onRetry with 1, 2, ... once after each failed call except call r + 1, and, every
\* call settling and every timer firing, the promise it returned settles.
RetryContract == []RetrySafe /\ <>(retryReturned.state # "pending")

\* all of three retries were used, onRetry saw 1, 2, 3 and the last call fulfilled
RetryWitness ==
    /\ retries = 3
    /\ onRetry = "returns"
    /\ outcomes = <<"fail", "fail", "fail", "ok">>
    /\ onRetryLog = <<1, 2, 3>>
    /\ retryReturned = [state |-> "fulfilled", of |-> 4]

-----------------------------------------------------------------------------
(* debounce and throttle (runtime/function.ts).  A timer fires at or after  *)
(* its due time, never before; the clock may pass the due time first.  The  *)
(* body of a call and the body of a timer callback run to their end without*)
(* interleaving; fn may return, throw, or call the built function itself.   *)

MaxTime == 6           \* the clock runs from StartTime to MaxTime
MaxTimedCalls == 3     \* calls made on the built function, calls made by fn included

Delay == 2             \* debounce: delayMs
Interval == 2          \* throttle: interval
StartTime == Interval   \* Date.now() when the function is built: not below the interval
NoTimer == 0

TimedArgs == {"a", "b", "c"}

\* what fn does when invoked: it returns, throws, or calls the built function
FnBehaviours ==
    {[kind |-> "returns", args |-> "a"], [kind |-> "throws", args |-> "a"]}
        \cup {[kind |-> "reenters", args |-> a] : a \in TimedArgs}

Closure == [timers |-> timers, nextTimerId |-> nextTimerId, timeoutId |-> timeoutId,
            lastCall |-> lastCall, invoked |-> invoked, recent |-> recent,
            timedCalls |-> timedCalls]

clearTimeout(pending, id) == {t \in pending : t.id # id}

\* if (timeoutId) clearTimeout(timeoutId); timeoutId = setTimeout(callback, ms)
setTrailing(st, args, ms, t) ==
    [st EXCEPT !.timers = (IF st.timeoutId # NoTimer THEN clearTimeout(@, st.timeoutId) ELSE @)
                             \cup {[id |-> st.nextTimerId, due |-> t + ms, args |-> args]},
               !.timeoutId = st.nextTimerId,
               !.nextTimerId = @ + 1,
               !.recent = <<[at |-> t, args |-> args]>>,
               !.timedCalls = @ + 1]

\* the function debounce returns, called with args at time t
debounced(st, args, t) == setTrailing(st, args, Delay, t)

\* the callback debounce hands to setTimeout, run for timer tm at time t
debounceCallback(st, tm, behaviour, t) ==
    LET fired == [st EXCEPT !.timers = @ \ {tm},
                            !.invoked = Append(@, [at |-> t, args |-> tm.args, by |-> "timer"])]
        after == IF behaviour.kind = "reenters" THEN debounced(fired, behaviour.args, t)
                 ELSE fired
    IN  IF behaviour.kind = "throws" THEN after
        ELSE [after EXCEPT !.timeoutId = NoTimer]

\* the else branch of the function throttle returns
throttledLater(st, args, t) == setTrailing(st, args, Interval - (t - st.lastCall), t)

\* the function throttle returns, called with args at time t; a call fn makes while
\* it runs finds lastCall = t and takes the else branch
throttled(st, args, behaviour, t) ==
    IF t - st.lastCall >= Interval
    THEN LET called == [st EXCEPT !.lastCall = t,
                                  !.invoked = Append(@, [at |-> t, args |-> args, by |-> "call"]),
                                  !.timedCalls = @ + 1]
         IN  IF behaviour.kind = "reenters" THEN throttledLater(called, behaviour.args, t)
             ELSE called
    ELSE throttledLater(st, args, t)

\* the callback throttle hands to setTimeout, run for timer tm at time t
throttleCallback(st, tm, behaviour, t) ==
    LET fired == [st EXCEPT !.timers = @ \ {tm},
                            !.lastCall = t,
                            !.invoked = Append(@, [at |-> t, args |-> tm.args, by |-> "timer"])]
        after == IF behaviour.kind = "reenters" THEN throttledLater(fired, behaviour.args, t)
                 ELSE fired
    IN  IF behaviour.kind = "throws" THEN after
        ELSE [after EXCEPT !.timeoutId = NoTimer]

Becomes(st) ==
    /\ timers' = st.timers
    /\ nextTimerId' = st.nextTimerId
    /\ timeoutId' = st.timeoutId
    /\ lastCall' = st.lastCall
    /\ invoked' = st.invoked
    /\ recent' = st.recent
    /\ timedCalls' = st.timedCalls
    /\ UNCHANGED <<builtBy, now>>
    /\ UNCHANGED outsideTiming

InitTiming(builder) ==
    /\ builtBy = builder
    /\ now = StartTime
    /\ timers = {}
    /\ nextTimerId = 1
    /\ timeoutId = NoTimer
    /\ lastCall = 0
    /\ invoked = <<>>
    /\ recent = <<>>
    /\ timedCalls = 0
    /\ OutsideTimingIdle

InitDebounce == InitTiming("debounce")

InitThrottle == InitTiming("throttle")

\* time passes, whether or not a timer is due
Tick ==
    /\ builtBy # "idle"
    /\ now < MaxTime
    /\ now' = now + 1
    /\ UNCHANGED <<builtBy, timers, nextTimerId, timeoutId, lastCall, invoked, recent, timedCalls>>
    /\ UNCHANGED outsideTiming

DebouncedCall ==
    /\ builtBy = "debounce"
    /\ timedCalls < MaxTimedCalls
    /\ \E args \in TimedArgs : Becomes(debounced(Closure, args, now))

DebounceTimerFires ==
    /\ builtBy = "debounce"
    /\ \E tm \in timers : \E behaviour \in FnBehaviours :
          /\ tm.due <= now
          /\ behaviour.kind = "reenters" => timedCalls < MaxTimedCalls
          /\ Becomes(debounceCallback(Closure, tm, behaviour, now))

ThrottledCall ==
    /\ builtBy = "throttle"
    /\ \E args \in TimedArgs : \E behaviour \in FnBehaviours :
          /\ timedCalls + (IF behaviour.kind = "reenters" THEN 1 ELSE 0) < MaxTimedCalls
          /\ Becomes(throttled(Closure, args, behaviour, now))

ThrottleTimerFires ==
    /\ builtBy = "throttle"
    /\ \E tm \in timers : \E behaviour \in FnBehaviours :
          /\ tm.due <= now
          /\ behaviour.kind = "reenters" => timedCalls < MaxTimedCalls
          /\ Becomes(throttleCallback(Closure, tm, behaviour, now))

NextDebounce ==
    \/ Tick
    \/ DebouncedCall
    \/ DebounceTimerFires

NextThrottle ==
    \/ Tick
    \/ ThrottledCall
    \/ ThrottleTimerFires

SpecDebounce == InitDebounce /\ [][NextDebounce]_vars

SpecThrottle == InitThrottle /\ [][NextThrottle]_vars

\* an invocation of fn was added in this step
Invokes == Len(invoked') > Len(invoked)

\* C28: for a function built by debounce(fn, d), at most one timer is pending at any
\* time, and every invocation of fn is made by a timer, at least d ms after the most
\* recent call and with the arguments of that call (so a burst of calls, each made
\* before the timer of the previous one is due, is followed by one invocation only).
DebounceOneTimer ==
    /\ [](Cardinality(timers) <= 1)
    /\ [][Invokes =>
            (/\ invoked'[Len(invoked')].by = "timer"
             /\ recent # <<>>
             /\ invoked'[Len(invoked')].args = recent[1].args
             /\ invoked'[Len(invoked')].at >= recent[1].at + Delay)]_vars


\* C29: for a function built by throttle(fn, interval), any two invocations of fn are
\* at least interval ms apart, at most one trailing timer is pending at any time, and
\* an invocation the trailing timer makes carries the arguments of the most recent
\* call that was not executed immediately.
ThrottleSpacing ==
    /\ [](\A j \in 1..Len(invoked) : \A k \in 1..(j - 1) :
             invoked[j].at - invoked[k].at >= Interval)
    /\ [](Cardinality(timers) <= 1)
    /\ [][(Invokes /\ invoked'[Len(invoked')].by = "timer") =>
             (recent # <<>> /\ invoked'[Len(invoked')].args = recent[1].args)]_vars

-----------------------------------------------------------------------------
(* once (runtime/function.ts).  fn returns a value named by its arguments,  *)
(* or throws; before that it may call the built function itself.           *)

MaxOnceCalls == 4      \* calls on the built function that have ended before one more is made
MaxDepth == 2          \* executions of fn whose behaviour is chosen; any further one returns

OnceArgs == {"a", "b", "c"}

fnValue(args) == Str(args)

\* what one execution of fn does: the call it makes on the built function, if any,
\* and how it ends
OnceBehaviours ==
    [reenter : {<<>>} \cup {<<a>> : a \in OnceArgs}, ends : {"returns", "throws"}]

OncePlans == UNION {[1..n -> OnceBehaviours] : n \in 0..MaxDepth}

OnceClosure == [hasCalled |-> hasCalled, onceResult |-> onceResult, executions |-> executions,
                returnsLog |-> returnsLog, firstValue |-> firstValue]

markCalled_never(st) == st

\* hasCalled = true
markCalled(st) == [st EXCEPT !.hasCalled = TRUE]

\* the function once returns, called with args; plan is what the executions of fn
\* that follow will do, in order
RECURSIVE onceCalled(_, _, _)
onceCalled(st, args, plan) ==
    LET after == st.firstValue # <<>>
    IN  IF ~st.hasCalled
        THEN LET marked == markCalled(st)
                 began == [marked EXCEPT !.executions = @ + 1]
                 does == IF plan = <<>> THEN [reenter |-> <<>>, ends |-> "returns"]
                         ELSE Head(plan)
                 inside == IF does.reenter # <<>>
                           THEN onceCalled(began, does.reenter[1], Tail(plan))
                           ELSE began
             IN  IF does.ends = "throws"
                 THEN [inside EXCEPT !.returnsLog =
                          Append(@, [args |-> args, kind |-> "threw", value |-> Undefined,
                                     after |-> after])]
                 ELSE [inside EXCEPT !.onceResult = fnValue(args),
                                     !.returnsLog = Append(@, [args |-> args, kind |-> "returned",
                                                               value |-> fnValue(args),
                                                               after |-> after]),
                                     !.firstValue = IF began.executions = 1
                                                    THEN <<fnValue(args)>> ELSE @]
        ELSE [st EXCEPT !.returnsLog =
                 Append(@, [args |-> args, kind |-> "returned", value |-> st.onceResult,
                            after |-> after])]

InitOnce ==
    /\ hasCalled = FALSE
    /\ onceResult = Undefined
    /\ executions = 0
    /\ returnsLog = <<>>
    /\ firstValue = <<>>
    /\ OutsideOnceIdle

OnceCall ==
    /\ onceResult # <<>>
    /\ Len(returnsLog) < MaxOnceCalls
    /\ \E args \in OnceArgs : \E plan \in OncePlans :
          LET st == onceCalled(OnceClosure, args, plan)
          IN  /\ hasCalled' = st.hasCalled
              /\ onceResult' = st.onceResult
              /\ executions' = st.executions
              /\ returnsLog' = st.returnsLog
              /\ firstValue' = st.firstValue
    /\ UNCHANGED outsideOnce

NextOnce == OnceCall

SpecOnce == InitOnce /\ [][NextOnce]_vars

\* C30: over any sequence of calls on a function built by once(fn), calls made after
\* the first call threw and calls fn makes while it runs included, fn is executed at
\* most one time, and every call begun after the first call returned normally returns
\* the value of that first execution.
OnceExecutesOnce ==
    /\ executions <= 1
    /\ \A k \in 1..Len(returnsLog) :
          returnsLog[k].after =>
              (returnsLog[k].kind = "returned" /\ returnsLog[k].value = firstValue[1])

\* fn called the built function while it ran (that call returned undefined), then
\* returned, and a later call returned the value of the first execution
OnceWitness ==
    /\ executions = 1
    /\ Len(returnsLog) >= 3
    /\ returnsLog[1] = [args |-> "b", kind |-> "returned", value |-> Undefined, after |-> FALSE]
    /\ returnsLog[2] = [args |-> "a", kind |-> "returned", value |-> fnValue("a"),
                        after |-> FALSE]
    /\ returnsLog[3] = [args |-> "c", kind |-> "returned", value |-> fnValue("a"),
                        after |-> TRUE]

\* the first call threw: later calls do not execute fn again
OnceAfterThrowWitness ==
    /\ executions = 1
    /\ Len(returnsLog) >= 2
    /\ returnsLog[1].kind = "threw"
    /\ returnsLog[2].kind = "returned"
    /\ returnsLog[2].value = Undefined

====
